---------------------------- MODULE Spec2Model ----------------------------
(***************************************************************************)
(* prose-check: the document scanner (check_writing.py).                   *)
(*                                                                         *)
(* A document is a string.  The model writes a document as a sequence of   *)
(* tokens followed by `pad' filler words, all joined by single spaces:     *)
(*     text = toks[1] ++ " " ++ ... ++ " " ++ toks[n] ++ " lorem" * pad    *)
(* The token "EMDASH" stands for the character U+2014, "PARA" for the two  *)
(* characters "\n\n"; every other token is written as it is.  The filler   *)
(* word is "lorem".  Every regular expression and string method of the     *)
(* scanner is modelled by what it returns on the strings of this family.   *)
(*                                                                         *)
(* log_odds is a float in the source; the model keeps it in tenths         *)
(* (2.5 is 25).  Rates and quotients compared with a threshold are kept    *)
(* as integer cross-multiplications.                                       *)
(***************************************************************************)
EXTENDS Integers, Sequences, FiniteSets

VARIABLES
    text,           \* check_text's argument: [toks, pad]
    markers,        \* check_text's argument: the marker list
    verbose,        \* check_text's argument
    technical,      \* check_text's argument
    idx,            \* position of the `for marker in markers' loop
    findings,       \* check_text's local `findings'
    seen_patterns,  \* check_text's local `seen_patterns'
    pc,             \* where the caller is
    score,          \* the caller's `score'
    calls,          \* number of calls the caller has made
    earlier,        \* what the caller kept of its first call
    sample,         \* calculate_log_odds_ratio's arguments: the four counts
    odds,           \* what calculate_log_odds_ratio returned, or raised
    ngram_args,     \* get_ngrams' arguments: [words, n]
    ngrams,         \* what get_ngrams returned
    words,          \* analyze_lexical_patterns' opus_words and human_words
    counters,       \* its n-gram Counters
    corpora,        \* run_analysis: what the analyses read of the corpora
    family_markers, \* run_analysis: the marker lists of the three families
    summary_stats,  \* run_analysis: summary_stats
    lines,          \* load_corpus: the lines of the file
    texts,          \* load_corpus: texts
    args,           \* check_writing main: the parsed command line
    config,         \* check_writing main: config
    disk,           \* the files the scan CLI finds: MARKERS_PATH, the inputs
    results,        \* check_writing main: results
    any_failed,     \* check_writing main: any_failed
    exit_code,      \* the status of sys.exit, None while the CLI runs
    output,         \* what the CLI has printed and read: stdout, stderr, reads
    session,        \* interactive_mode's locals
    prompts,        \* generate_samples: the prompts file and the run's arguments
    output_file,    \* generate_samples: the lines of output_path
    remaining_prompts, \* generate_samples: remaining_prompts
    pbar,           \* generate_samples: turns of the loop completed
    run_stats,      \* generate_samples: stats
    last_request_time, \* generate_samples: last_request_time
    clock,          \* time.time(), in tenths of a second
    requests        \* every client.messages.create so far: prompt id and time

\* The state of the document scanner (check_writing.py) and of its caller.
scan_vars == <<text, verbose, technical, idx, findings, seen_patterns, score>>

\* The state of the marker extraction (src/analyze.py).
extraction_vars == <<sample, odds, ngram_args, ngrams, words, counters,
                     corpora, family_markers, summary_stats, lines, texts>>

\* The state of the scan CLI (check_writing.py main) and of the sample
\* generator (src/generate_samples.py).
cli_vars == <<args, config, disk, results, any_failed, exit_code, output,
              session>>

generate_vars == <<prompts, output_file, remaining_prompts, pbar, run_stats,
                   last_request_time, clock, requests>>

driver_vars == <<cli_vars, generate_vars>>

vars == <<text, markers, verbose, technical, idx, findings, seen_patterns,
          pc, score, calls, earlier, sample, odds, ngram_args, ngrams,
          words, counters, corpora, family_markers, summary_stats, lines,
          texts, args, config, disk, results, any_failed, exit_code, output,
          session, prompts, output_file, remaining_prompts, pbar, run_stats,
          last_request_time, clock, requests>>

(***************************************************************************)
(* Constants of check_writing.py                                           *)
(***************************************************************************)
HIGH_SEVERITY == 25
MEDIUM_SEVERITY == 15
MIN_HEALTHY_PARA_LENGTH == 40
TECHNICAL_PARA_LENGTH == 20
HIGH_PARA_LENGTH == 25

\* Excerpts of the catalogues: the entries the documents and markers of the
\* model can meet, and a few neighbours.
MARKDOWN_PATTERNS == {"##", "###", "**", "__", "*", "_", "---", "|", ">"}
TRAINING_ARTIFACTS == {"jenna", "marcus", "margaret", "chen", "sarah"}
TECHNICAL_TERMS == {"python", "javascript", "docker", "api", "json"}
PROGRAMMING_TERMS == {"code", "function", "method", "class", "document"}
TECHNICAL_PHRASES == {"error handling", "rate limiting", "this document"}
HEDGING_WORDS == {"typically", "often", "sometimes", "potentially",
                  "usually", "rather", "probably"}
FORMULAIC_STARTERS == <<"this document", "this guide", "this article",
                        "this section", "comprehensive", "in this",
                        "introduction", "let's">>

None == [removed |-> TRUE]

(***************************************************************************)
(* Strings                                                                 *)
(***************************************************************************)
\* str.lower() on the words of the model.
Lower(s) ==
    CASE s = "Delve" -> "delve"
      [] s = "Python" -> "python"
      [] s = "Jenna" -> "jenna"
      [] OTHER -> s

\* len() of one token.
CharLen(tok) ==
    CASE tok = "delve" -> 5
      [] tok = "python" -> 6
      [] tok = "often" -> 5
      [] tok = "comprehensive" -> 13
      [] tok = "jenna" -> 5
      [] tok = "complete" -> 8
      [] tok = "dig" -> 3
      [] tok = "." -> 1
      [] tok = "EMDASH" -> 1
      [] tok = "--" -> 2
      [] tok = "PARA" -> 2
      [] tok = "-" -> 1
      [] tok = "##" -> 2

Sum(f, S) ==
    LET RECURSIVE Acc(_)
        Acc(T) == IF T = {} THEN 0
                  ELSE LET x == CHOOSE y \in T : TRUE IN f[x] + Acc(T \ {x})
    IN Acc(S)

Positions(t) == 1..Len(t.toks)

\* len(text)
TotalChars(t) ==
    LET n == Len(t.toks)
        units == n + t.pad
    IN Sum([i \in Positions(t) |-> CharLen(t.toks[i])], Positions(t))
         + 5 * t.pad + (IF units > 0 THEN units - 1 ELSE 0)

\* len(text.split()): every token but the paragraph break is one
\* whitespace-separated word, and so is every filler word.
TotalWords(t) ==
    Cardinality({i \in Positions(t) : t.toks[i] # "PARA"}) + t.pad

\* The last token before position i that is not a paragraph break (0: none).
PrevInk(t, i) ==
    LET before == {j \in 1..(i - 1) : t.toks[j] # "PARA"}
    IN IF before = {} THEN 0 ELSE CHOOSE j \in before : \A k \in before : k <= j

\* The tokens made of word characters (letters): "\b" holds at both ends of
\* such a token and at neither end of the others, which stand between spaces.
IsWord(tok) == tok \notin {".", "EMDASH", "--", "PARA", "-", "##"}

\* re.compile(r'\b' + re.escape(item) + r'\b', re.IGNORECASE).finditer(text):
\* the positions of the matches.  A token is delimited by spaces and no
\* filler word is an item.
WordMatches(t, item) ==
    {i \in Positions(t) : IsWord(item) /\ Lower(t.toks[i]) = Lower(item)}

\* re.compile(r'(?:^|[.!?]\s+)' + re.escape(item), IGNORECASE | MULTILINE)
\* .findall(text): an occurrence of item at the start of the text, or after
\* a "." and white space (paragraph breaks included).  "^" also matches after
\* each "\n" of a paragraph break, but there a space follows it.
StarterMatches(t, item) ==
    {i \in Positions(t) :
        /\ Lower(t.toks[i]) = Lower(item)
        /\ \/ i = 1
           \/ PrevInk(t, i) # 0 /\ t.toks[PrevInk(t, i)] = "."}

\* text.count("—") + text.count("--")
EmDashCount(t) ==
    Cardinality({i \in Positions(t) : t.toks[i] \in {"EMDASH", "--"}})


(***************************************************************************)
(* analyze_structure                                                       *)
(***************************************************************************)
\* Paragraphs: re.split(r'\n\s*\n', text), stripped, the empty ones dropped.
\* A paragraph is a maximal run of tokens without a paragraph break; the
\* filler words join the last run, or make one of their own.
ParaCount(t) ==
    LET n == Len(t.toks)
    IN Cardinality({i \in Positions(t) :
                       t.toks[i] # "PARA" /\ (i = 1 \/ t.toks[i - 1] = "PARA")})
         + (IF t.pad > 0 /\ (n = 0 \/ t.toks[n] = "PARA") THEN 1 ELSE 0)

\* re.findall(r'^\s*[-•*]\s', text, re.MULTILINE): a "-" at the start of the
\* text or right after a paragraph break, with white space after it.  No
\* document of the model holds a digit, so the numbered-item pattern
\* r'^\s*\d+\.\s' finds nothing.
ListItems(t) ==
    LET n == Len(t.toks)
    IN Cardinality({i \in Positions(t) :
                       /\ t.toks[i] = "-"
                       /\ i < n \/ t.pad > 0
                       /\ i = 1 \/ t.toks[i - 1] = "PARA"})

\* Sentences: re.split(r'[.!?]+', text), stripped, the empty ones dropped.
\* A sentence starts at a token that is neither "." nor a paragraph break
\* and has no such token before it since the last "."; the filler words
\* join the last sentence, or make one of their own.
SentenceCount(t) ==
    LET last == PrevInk(t, Len(t.toks) + 1)
    IN Cardinality({i \in Positions(t) :
                       /\ t.toks[i] \notin {".", "PARA"}
                       /\ PrevInk(t, i) = 0 \/ t.toks[PrevInk(t, i)] = "."})
         + (IF t.pad > 0 /\ (last = 0 \/ t.toks[last] = ".") THEN 1 ELSE 0)

\* `if para_lengths' and `if sentence_lengths' / `if total_sentences': the
\* guards of the averages and percentages of analyze_structure.
HasParagraphs(para_count) == para_count > 0
HasSentences(sentence_count) == sentence_count > 0

\* The fields of the result that check_text reads.  avg_para_words is the
\* quotient para_words / para_count (0 when there is no paragraph); the
\* sentence statistics, which check_text never reads, are left out.
analyze_structure(t) ==
    [para_count |-> ParaCount(t),
     para_words |-> IF HasParagraphs(ParaCount(t)) THEN TotalWords(t) ELSE 0,
     list_items |-> ListItems(t)]

(***************************************************************************)
(* check_text: one marker                                                  *)
(***************************************************************************)
\* get_severity with exclusive thresholds.
get_severity_exclusive(log_odds) ==
    IF log_odds > HIGH_SEVERITY THEN "high"
    ELSE IF log_odds > MEDIUM_SEVERITY THEN "medium"
    ELSE "low"

get_severity(log_odds) ==
    IF log_odds >= HIGH_SEVERITY THEN "high"
    ELSE IF log_odds >= MEDIUM_SEVERITY THEN "medium"
    ELSE "low"

\* excluded_patterns, built from the context.
ExcludedPatterns(tech) ==
    MARKDOWN_PATTERNS \cup TRAINING_ARTIFACTS \cup
    (IF tech THEN TECHNICAL_TERMS \cup PROGRAMMING_TERMS \cup TECHNICAL_PHRASES
     ELSE {})

\* The exclusion test on the item as written only.
IsExcludedAsWritten(item, tech) == item \in ExcludedPatterns(tech)

\* item in excluded_patterns or item.lower().strip() in excluded_patterns
\* (no item of the model has white space around it: strip() returns it).
IsExcluded(item, tech) ==
    item \in ExcludedPatterns(tech) \/ Lower(item) \in ExcludedPatterns(tech)

\* A scanner that skips no marker for its ratio.
SkipLowRatioNever(log_odds, verb) == FALSE

\* log_odds < MEDIUM_SEVERITY and not verbose
SkipLowRatio(log_odds, verb) == log_odds < MEDIUM_SEVERITY /\ ~verb

\* count = len(matches)
MatchCount(t, marker) ==
    IF marker.type = "sentence_starter"
    THEN Cardinality(StarterMatches(t, marker.item))
    ELSE Cardinality(WordMatches(t, marker.item))

\* The finding of a marker; ratio, alternative and context, which depend on
\* the marker and the text alone and steer nothing, are left out.
MarkerFinding(marker, count) ==
    [pattern |-> marker.item, type |-> marker.type, count |-> count,
     severity |-> get_severity(marker.log_odds), log_odds |-> marker.log_odds]

\* pattern_key = item.lower()
PatternKey(item) == Lower(item)

\* A replacement test that lets a tie replace too.
SupersedesOnTie(log_odds, prev_log_odds) == log_odds >= prev_log_odds

\* The test that lets a later marker replace the finding kept for its key.
Supersedes(log_odds, prev_log_odds) == log_odds > prev_log_odds

Bump(stats, severity, d) ==
    [stats EXCEPT
        !.patterns_found = @ + d,
        !.high_severity = IF severity = "high" THEN @ + d ELSE @,
        !.medium_severity = IF severity = "medium" THEN @ + d ELSE @]

\* findings[prev_severity][prev_idx] = None, and the counters taken back.
\* prev_idx is a Python index: position prev_idx + 1 of the sequence.
MarkForRemoval(f, prev) ==
    [f EXCEPT ![prev[1]] = [@ EXCEPT ![prev[2] + 1] = None],
              !.stats = Bump(@, prev[1], -1)]

\* findings[severity].append(finding), by_category and the counters.
AppendFinding(f, finding) ==
    [f EXCEPT ![finding.severity] = Append(@, finding),
              !.by_category = [@ EXCEPT ![finding.type] = Append(@, finding)],
              !.stats = Bump(@, finding.severity, 1)]

Put(d, k, v) == [x \in DOMAIN d \cup {k} |-> IF x = k THEN v ELSE d[x]]

\* The body of `for marker in markers': the findings and the seen_patterns
\* it leaves.
ScanMarker(f, seen, t, marker, verb, tech) ==
    LET same == [findings |-> f, seen_patterns |-> seen]
        count == MatchCount(t, marker)
        finding == MarkerFinding(marker, count)
        key == PatternKey(marker.item)
        added(g) ==
            [findings |-> AppendFinding(g, finding),
             seen_patterns |->
                 Put(seen, key, <<finding.severity, Len(g[finding.severity]),
                                  marker.log_odds>>)]
    IN IF IsExcluded(marker.item, tech) THEN same
       ELSE IF SkipLowRatio(marker.log_odds, verb) THEN same
       ELSE IF count = 0 THEN same
       ELSE IF key \in DOMAIN seen
            THEN IF Supersedes(marker.log_odds, seen[key][3])
                 THEN added(MarkForRemoval(f, seen[key]))
                 ELSE same
            ELSE added(f)

(***************************************************************************)
(* check_text: the checks made once per document                           *)
(***************************************************************************)
\* findings[severity].append({...}) of a check that is not a marker's: the
\* counters move, by_category does not.
AppendStructural(f, finding) ==
    [f EXCEPT ![finding.severity] = Append(@, finding),
              !.stats = Bump(@, finding.severity, 1)]

\* A guard that lets a count of zero through.
EmDashPresentOrZero(em_dash_count) == em_dash_count >= 0

\* if em_dash_count > 0: the guard of the division by len(text)
EmDashPresent(em_dash_count) == em_dash_count > 0

\* A rate test that flags the rate 1.0 itself.
EmDashOveruseInclusive(em_dash_count, chars) == em_dash_count * 1000 >= chars

\* em_dash_count / len(text) * 1000 > 1.0
EmDashOveruse(em_dash_count, chars) == em_dash_count * 1000 > chars

EmDashCheck(f, t) ==
    LET em_dash_count == EmDashCount(t)
    IN IF EmDashPresent(em_dash_count)
          /\ EmDashOveruse(em_dash_count, TotalChars(t))
       THEN AppendStructural(f, [pattern |-> "em dash", type |-> "punctuation",
                                 count |-> em_dash_count, severity |-> "high"])
       ELSE f

\* The paragraph thresholds of the two modes exchanged.
ParaThresholdExchanged(tech) ==
    IF tech THEN MIN_HEALTHY_PARA_LENGTH ELSE TECHNICAL_PARA_LENGTH

\* para_threshold = 20 if technical else MIN_HEALTHY_PARA_LENGTH
ParaThreshold(tech) ==
    IF tech THEN TECHNICAL_PARA_LENGTH ELSE MIN_HEALTHY_PARA_LENGTH

\* 0 < avg_para_words < para_threshold, avg_para_words = words / count
ShortParagraphs(structural, tech) ==
    /\ structural.para_count > 0
    /\ structural.para_words > 0
    /\ structural.para_words < ParaThreshold(tech) * structural.para_count

ParagraphSeverity(structural, tech) ==
    IF tech THEN "medium"
    ELSE IF structural.para_words < HIGH_PARA_LENGTH * structural.para_count
         THEN "high" ELSE "medium"

ParagraphCheck(f, t, tech) ==
    LET structural == analyze_structure(t)
        g == [f EXCEPT !.stats.structural = structural]
    IN IF ShortParagraphs(structural, tech)
       THEN AppendStructural(g, [pattern |-> "Short paragraphs",
                                 type |-> "structure",
                                 count |-> structural.para_count,
                                 severity |-> ParagraphSeverity(structural, tech)])
       ELSE g

\* if total_words > 0: the guard of the divisions by total_words
HasWords(total_words) == total_words > 0

\* list_items / total_words * 100 > MAX_HEALTHY_LIST_ITEMS_PER_100_WORDS (1.0)
ListOveruse(list_items, total_words) == list_items * 100 > total_words

ListCheck(f) ==
    LET total_words == f.stats.total_words
        list_items == f.stats.structural.list_items
    IN IF HasWords(total_words) /\ ListOveruse(list_items, total_words)
       THEN AppendStructural(f, [pattern |-> "Bullet point overuse",
                                 type |-> "structure", count |-> list_items,
                                 severity |-> "medium"])
       ELSE f

\* The sum over HEDGING_WORDS of the matches of r'\b' + word + r'\b'.
HedgingCount(t) ==
    Cardinality({i \in Positions(t) : Lower(t.toks[i]) \in HEDGING_WORDS})

\* hedging_count / total_words * 1000 > 8.0
HedgingOveruse(hedging_count, total_words) ==
    hedging_count * 1000 > 8 * total_words

HedgingCheck(f, t) ==
    LET total_words == f.stats.total_words
        hedging_count == HedgingCount(t)
    IN IF HasWords(total_words) /\ HedgingOveruse(hedging_count, total_words)
       THEN AppendStructural(f, [pattern |-> "Hedging language overuse",
                                 type |-> "hedging", count |-> hedging_count,
                                 severity |-> "medium"])
       ELSE f

\* The sentences of re.split(r'[.!?]+', text) that, stripped and lowered,
\* start with a formulaic starter: a sentence starts at the first token
\* that is not a paragraph break, after a "." or at the start of the text.
\* No token of the model properly extends a starter, and no starter of
\* several words can be spelled with the tokens.
FormulaicCount(t) ==
    Cardinality({i \in Positions(t) :
        /\ \E k \in 1..Len(FORMULAIC_STARTERS) :
              Lower(t.toks[i]) = FORMULAIC_STARTERS[k]
        /\ PrevInk(t, i) = 0 \/ t.toks[PrevInk(t, i)] = "."})

FormulaicCheck(f, t) ==
    LET formulaic_count == FormulaicCount(t)
    IN IF formulaic_count >= 2
       THEN AppendStructural(f, [pattern |-> "Formulaic sentence starters",
                                 type |-> "sentence_starter",
                                 count |-> formulaic_count,
                                 severity |-> "medium"])
       ELSE f

\* A return that leaves the removal marks in the lists.
CleanNothing(f) == f

\* findings[severity] = [f for f in findings[severity] if f is not None]
Clean(f) ==
    [f EXCEPT !.high = SelectSeq(@, LAMBDA x : x # None),
              !.medium = SelectSeq(@, LAMBDA x : x # None),
              !.low = SelectSeq(@, LAMBDA x : x # None)]

EmptyMap == [x \in {} |-> None]

MarkerTypes == {"word", "sentence_starter"}

\* The `findings' dict check_text starts from.
NewFindings(t) ==
    [high |-> <<>>, medium |-> <<>>, low |-> <<>>,
     by_category |-> [ty \in MarkerTypes |-> <<>>],
     stats |-> [total_chars |-> TotalChars(t),
                total_words |-> TotalWords(t),
                patterns_found |-> 0,
                high_severity |-> 0,
                medium_severity |-> 0,
                structural |-> None]]

\* A seen_patterns that outlives the call.
NewSeenPatternsKept(left) == left

\* The `seen_patterns' dict check_text starts from, whatever an earlier call
\* left in its own.
NewSeenPatterns(left) == EmptyMap

\* The divisions of check_text and analyze_structure that a guard stands
\* before: ZeroDivisionError is raised when a guard lets a zero divisor
\* through.
DivisionByZero(t) ==
    \/ EmDashPresent(EmDashCount(t)) /\ TotalChars(t) = 0
    \/ HasParagraphs(ParaCount(t)) /\ ParaCount(t) = 0
    \/ HasSentences(SentenceCount(t)) /\ SentenceCount(t) = 0
    \/ HasWords(TotalWords(t)) /\ TotalWords(t) = 0

(***************************************************************************)
(* calculate_score                                                         *)
(***************************************************************************)
Min(a, b) == IF a <= b THEN a ELSE b
Max(a, b) == IF a >= b THEN a ELSE b

\* calculate_score without the clamp from below.
calculate_score_unclamped(f) ==
    LET total_words == f.stats.total_words
        points == f.stats.high_severity * 10 + f.stats.medium_severity * 3
        raw == 100 * total_words - 100 * points
    IN IF total_words = 0 THEN 100
       ELSE IF raw >= 0 THEN Min(100 * total_words, raw) \div total_words
       ELSE -((-raw) \div total_words)

\* calculate_score that rounds to the nearest integer.
calculate_score_rounded(f) ==
    LET total_words == f.stats.total_words
        points == f.stats.high_severity * 10 + f.stats.medium_severity * 3
        raw == 100 * total_words - 100 * points
        clamped == Max(0, Min(100 * total_words, raw))
    IN IF total_words = 0 THEN 100
       ELSE (2 * clamped + total_words) \div (2 * total_words)

\* int(max(0, min(100, 100 - penalty))) with
\* penalty = (high_count * 10 + medium_count * 3) / (total_words / 100).
\* 100 - penalty is the quotient (100 * total_words - 100 * points) /
\* total_words; it is clamped as a quotient and int() drops its fraction.
calculate_score(f) ==
    LET high_count == f.stats.high_severity
        medium_count == f.stats.medium_severity
        total_words == f.stats.total_words
        high_penalty == high_count * 10
        medium_penalty == medium_count * 3
        raw == 100 * total_words - 100 * (high_penalty + medium_penalty)
        clamped == Max(0, Min(100 * total_words, raw))
    IN IF total_words = 0 THEN 100 ELSE clamped \div total_words

(***************************************************************************)
(* Inputs                                                                  *)
(***************************************************************************)
MaxMarkers == 2
MaxScanToks == 2
MaxLayoutToks == 3
MaxCount == 3
MaxWords == 60

SeqsUpTo(S, n) == UNION {[1..k -> S] : k \in 0..n}

\* Markers that share a pattern, on documents that hold it: for the
\* deduplication and the severities.
DedupMarkers ==
    [item : {"delve", "Delve"}, type : MarkerTypes, log_odds : {14, 15, 20, 25}]
DedupDocs == [toks : SeqsUpTo({"delve", "PARA"}, MaxScanToks), pad : {0}]
DedupInputs == DedupDocs \X SeqsUpTo(DedupMarkers, MaxMarkers)

\* Markers of the exclusion catalogues and one of none, on documents that
\* hold them.
CatalogueMarkers ==
    {[item |-> "python", type |-> "word", log_odds |-> 20],
     [item |-> "Python", type |-> "sentence_starter", log_odds |-> 25],
     [item |-> "jenna", type |-> "word", log_odds |-> 25],
     [item |-> "##", type |-> "sentence_starter", log_odds |-> 25],
     [item |-> "delve", type |-> "word", log_odds |-> 14]}
CatalogueDocs ==
    [toks : SeqsUpTo({"python", "jenna", "##", "delve"}, MaxScanToks),
     pad : {0}]
CatalogueInputs == CatalogueDocs \X SeqsUpTo(CatalogueMarkers, MaxMarkers)

\* Documents for the checks made once per document: punctuation, paragraph
\* breaks, bullets, hedging and formulaic words, with filler up to the
\* thresholds, against at most one marker.
LayoutToks == {"often", "comprehensive", ".", "EMDASH", "--", "PARA", "-"}
PadSizes == {0, 19, 23, 38, 98, 123, 166}
LayoutMarkerLists ==
    {<<>>,
     <<[item |-> "often", type |-> "word", log_odds |-> 20]>>,
     <<[item |-> "comprehensive", type |-> "sentence_starter",
        log_odds |-> 25]>>}
LayoutDocs == [toks : SeqsUpTo(LayoutToks, MaxLayoutToks), pad : PadSizes]
LayoutInputs == LayoutDocs \X LayoutMarkerLists

\* Inputs of a caller that scans one document twice.
TwiceMarkers ==
    {[item |-> "python", type |-> "word", log_odds |-> 20],
     [item |-> "delve", type |-> "word", log_odds |-> 25],
     [item |-> "Delve", type |-> "sentence_starter", log_odds |-> 15]}
TwiceDocs ==
    [toks : SeqsUpTo({"python", "delve"}, MaxScanToks), pad : {0, 19, 38}]
TwiceInputs == TwiceDocs \X SeqsUpTo(TwiceMarkers, MaxMarkers)

(***************************************************************************)
(* The caller: check_text, then calculate_score                            *)
(***************************************************************************)
\* check_text is entered.
Enter(t, ms, verb, tech) ==
    /\ text = t
    /\ markers = ms
    /\ verbose = verb
    /\ technical = tech
    /\ idx = 1
    /\ findings = NewFindings(t)
    /\ seen_patterns = NewSeenPatterns(EmptyMap)
    /\ pc = "markers"

\* Neither the scan CLI nor the sample generator runs.
CliIdle ==
    /\ args = None
    /\ config = None
    /\ disk = None
    /\ results = None
    /\ any_failed = None
    /\ exit_code = None
    /\ output = None
    /\ session = None

GenerateIdle ==
    /\ prompts = None
    /\ output_file = None
    /\ remaining_prompts = None
    /\ pbar = None
    /\ run_stats = None
    /\ last_request_time = None
    /\ clock = None
    /\ requests = None

DriverIdle == CliIdle /\ GenerateIdle

\* No extraction is under way.
ExtractionIdle ==
    /\ sample = None
    /\ odds = None
    /\ ngram_args = None
    /\ ngrams = None
    /\ words = None
    /\ counters = None
    /\ corpora = None
    /\ family_markers = None
    /\ summary_stats = None
    /\ lines = None
    /\ texts = None

InitOn(Inputs) ==
    /\ \E in \in Inputs, verb \in BOOLEAN, tech \in BOOLEAN :
          Enter(in[1], in[2], verb, tech)
    /\ score = None
    /\ calls = 1
    /\ earlier = None
    /\ ExtractionIdle
    /\ DriverIdle

Init == InitOn(DedupInputs \cup CatalogueInputs)

\* One turn of `for marker in markers'.
CheckMarker ==
    /\ pc = "markers"
    /\ idx <= Len(markers)
    /\ LET r == ScanMarker(findings, seen_patterns, text, markers[idx],
                           verbose, technical)
       IN /\ findings' = r.findings
          /\ seen_patterns' = r.seen_patterns
    /\ idx' = idx + 1
    /\ UNCHANGED <<text, markers, verbose, technical, pc, score, calls, earlier>>
    /\ UNCHANGED extraction_vars
    /\ UNCHANGED driver_vars

\* After the loop: punctuation, structure, hedging, formulaic starters.
\* An exception leaves check_text and its caller.
StructuralChecks ==
    /\ pc = "markers"
    /\ idx > Len(markers)
    /\ IF DivisionByZero(text)
       THEN pc' = "raised" /\ UNCHANGED findings
       ELSE /\ findings' =
                  FormulaicCheck(
                      HedgingCheck(
                          ListCheck(
                              ParagraphCheck(EmDashCheck(findings, text),
                                             text, technical)),
                          text),
                      text)
            /\ pc' = "cleanup"
    /\ UNCHANGED <<text, markers, verbose, technical, idx, seen_patterns,
                   score, calls, earlier>>
    /\ UNCHANGED extraction_vars
    /\ UNCHANGED driver_vars

\* The None values of the deduplication are dropped; check_text returns.
CleanUp ==
    /\ pc = "cleanup"
    /\ findings' = Clean(findings)
    /\ pc' = "returned"
    /\ UNCHANGED <<text, markers, verbose, technical, idx, seen_patterns,
                   score, calls, earlier>>
    /\ UNCHANGED extraction_vars
    /\ UNCHANGED driver_vars

\* score = calculate_score(findings)
Score ==
    /\ pc = "returned"
    /\ score' = calculate_score(findings)
    /\ pc' = "scored"
    /\ UNCHANGED <<text, markers, verbose, technical, idx, findings,
                   seen_patterns, calls, earlier>>
    /\ UNCHANGED extraction_vars
    /\ UNCHANGED driver_vars

Next == CheckMarker \/ StructuralChecks \/ CleanUp \/ Score

Spec == Init /\ [][Next]_vars

(***************************************************************************)
(* The same caller on the documents of the checks made once per document   *)
(***************************************************************************)
InitLayout == InitOn(LayoutInputs)

NextLayout == CheckMarker \/ StructuralChecks \/ CleanUp \/ Score

SpecLayout == InitLayout /\ [][NextLayout]_vars

(***************************************************************************)
(* A caller that scans the same document a second time, with the same      *)
(* markers and verbosity and any technical flag                            *)
(***************************************************************************)
Again ==
    /\ pc = "scored"
    /\ calls = 1
    /\ earlier' = [findings |-> findings, score |-> score,
                   technical |-> technical, markers |-> markers]
    /\ calls' = 2
    /\ \E tech \in BOOLEAN : technical' = tech
    /\ idx' = 1
    /\ findings' = NewFindings(text)
    /\ seen_patterns' = NewSeenPatterns(seen_patterns)
    /\ pc' = "markers"
    /\ score' = None
    /\ UNCHANGED <<text, markers, verbose>>
    /\ UNCHANGED extraction_vars
    /\ UNCHANGED driver_vars

InitTwice == InitOn(TwiceInputs)

NextTwice == CheckMarker \/ StructuralChecks \/ CleanUp \/ Score \/ Again

SpecTwice == InitTwice /\ [][NextTwice]_vars

(***************************************************************************)
(* calculate_score on any counts                                           *)
(***************************************************************************)
LowFinding ==
    [pattern |-> "delve", type |-> "word", count |-> 1, severity |-> "low",
     log_odds |-> 14]

InitScore ==
    /\ \E h \in 0..MaxCount, m \in 0..MaxCount, w \in 0..MaxWords,
          low \in {<<>>, <<LowFinding>>} :
          findings = [NewFindings([toks |-> <<>>, pad |-> 0]) EXCEPT
                         !.low = low,
                         !.stats.high_severity = h,
                         !.stats.medium_severity = m,
                         !.stats.patterns_found = h + m + Len(low),
                         !.stats.total_words = w]
    /\ text = [toks |-> <<>>, pad |-> 0]
    /\ markers = <<>>
    /\ verbose = TRUE
    /\ technical = TRUE
    /\ idx = 1
    /\ seen_patterns = NewSeenPatterns(EmptyMap)
    /\ pc = "returned"
    /\ score = None
    /\ calls = 1
    /\ earlier = None
    /\ ExtractionIdle
    /\ DriverIdle

NextScore == Score

SpecScore == InitScore /\ [][NextScore]_vars

(***************************************************************************)
(* Properties of calculate_score (checked under SpecScore)                 *)
(***************************************************************************)
\* The numerator of 100 - penalty over the denominator total_words.
RawTimesWords(f) ==
    100 * f.stats.total_words
      - 100 * (10 * f.stats.high_severity + 3 * f.stats.medium_severity)

\* C1: whatever the counts of high and medium findings and of words,
\* calculate_score returns an integer between 0 and 100, and it returns
\* exactly 100 when total_words is 0.
C1_ScoreInRange ==
    pc = "scored" =>
        /\ score \in 0..100
        /\ findings.stats.total_words = 0 => score = 100

\* C1 witness: a score was computed for counts whose penalty exceeds 100:
\* the clamp from below acted.
C1_Witness ==
    /\ pc = "scored"
    /\ findings.stats.total_words > 0
    /\ RawTimesWords(findings) < 0
    /\ score = 0

Severities == {"high", "medium", "low"}

\* The places of the three severity lists, and what stands at a place.
Listed(f) == {p \in Severities \X (1..Len(markers) + 5) : p[2] <= Len(f[p[1]])}
At(f, p) == f[p[1]][p[2]]

\* A finding made from a marker carries the marker's log_odds; the findings
\* of the checks made once per document and the removal mark do not.
FromMarker(x) == "log_odds" \in DOMAIN x

Returned == pc \in {"returned", "scored"}

\* The markers of a pattern key that the loop does not skip and that match
\* the document.
Candidates(k) ==
    {i \in 1..Len(markers) :
        /\ PatternKey(markers[i].item) = k
        /\ ~IsExcluded(markers[i].item, technical)
        /\ ~SkipLowRatio(markers[i].log_odds, verbose)
        /\ MatchCount(text, markers[i]) > 0}

\* The candidate of the highest log_odds, the first of them on a tie.
Winner(C) ==
    CHOOSE i \in C : \A j \in C :
        \/ markers[j].log_odds < markers[i].log_odds
        \/ markers[j].log_odds = markers[i].log_odds /\ i <= j

\* C2: when several markers that are not skipped share an item (case
\* ignored) and each matches the document, check_text returns exactly one
\* finding for that item in the high, medium and low lists: the finding of
\* the marker of the highest log_odds, in whatever order the markers come,
\* and on equal log_odds the finding of the marker that comes first.
C2_DedupKeepsHighest ==
    Returned =>
        \A m \in 1..Len(markers) :
            LET k == PatternKey(markers[m].item)
                C == Candidates(k)
                kept == {p \in Listed(findings) :
                            PatternKey(At(findings, p).pattern) = k}
                w == markers[Winner(C)]
            IN C # {} =>
                 /\ Cardinality(kept) = 1
                 /\ \A p \in kept :
                        /\ At(findings, p) = MarkerFinding(w, MatchCount(text, w))
                        /\ p[1] = get_severity(w.log_odds)

\* C2 witness: check_text returned; two different markers of one item and of
\* equal log_odds both matched, and the finding kept is the first one's.
C2_Witness ==
    /\ pc = "returned"
    /\ Len(markers) = 2
    /\ Candidates(PatternKey(markers[1].item)) = {1, 2}
    /\ markers[1].log_odds = markers[2].log_odds
    /\ markers[1].type # markers[2].type
    /\ \E p \in Listed(findings) : At(findings, p).type = markers[1].type

\* C5: the severity of a marker depends on its log_odds alone, both
\* thresholds inclusive (high from 2.5, medium from 1.5 to below 2.5, low
\* below 1.5); every finding made from a marker carries that severity and
\* stands in the list of that severity.
C5_SeverityByLogOdds ==
    \A p \in Listed(findings) :
        LET x == At(findings, p)
        IN FromMarker(x) =>
             /\ x.severity = p[1]
             /\ \E m \in 1..Len(markers) :
                    /\ markers[m].item = x.pattern
                    /\ markers[m].type = x.type
                    /\ markers[m].log_odds = x.log_odds
             /\ x.severity = "high" <=> x.log_odds >= 25
             /\ x.severity = "medium" <=> (15 <= x.log_odds /\ x.log_odds < 25)
             /\ x.severity = "low" <=> x.log_odds < 15

\* C5 witness: check_text returned a high finding of log_odds 2.5 exactly
\* and a low finding of log_odds 1.4.
C5_Witness ==
    /\ pc = "returned"
    /\ \E n \in 1..Len(findings.high) :
           FromMarker(findings.high[n]) /\ findings.high[n].log_odds = 25
    /\ \E n \in 1..Len(findings.low) :
           FromMarker(findings.low[n]) /\ findings.low[n].log_odds = 14

TechnicalCatalogue ==
    TECHNICAL_TERMS \cup PROGRAMMING_TERMS \cup TECHNICAL_PHRASES

\* The pattern keys of the findings made from markers.
MarkerKeys(f) ==
    {PatternKey(At(f, p).pattern) :
        p \in {q \in Listed(f) : FromMarker(At(f, q))}}

\* C6: with technical set, check_text never holds a finding whose pattern
\* is a marker item of the technical catalogues; in both modes it never
\* holds one for a markdown token or a training-artifact name; with
\* technical unset, a marker of the technical catalogues that occurs in the
\* text and passes the severity filter has a finding on return.
C6_TechnicalExclusion ==
    /\ technical => MarkerKeys(findings) \cap TechnicalCatalogue = {}
    /\ MarkerKeys(findings) \cap (MARKDOWN_PATTERNS \cup TRAINING_ARTIFACTS) = {}
    /\ ~technical /\ Returned =>
          \A m \in 1..Len(markers) :
              /\ PatternKey(markers[m].item) \in TechnicalCatalogue
              /\ MatchCount(text, markers[m]) > 0
              /\ ~(markers[m].log_odds < 15 /\ ~verbose)
              => PatternKey(markers[m].item) \in MarkerKeys(findings)

\* C6 witness: a technical scan returned no marker finding for a document
\* that holds "python" and "jenna", each matched by a marker of the list,
\* the first of them written "Python".
C6_Witness ==
    /\ pc = "returned"
    /\ technical
    /\ Len(markers) = 2
    /\ markers[1].item = "Python"
    /\ markers[2].item = "jenna"
    /\ \A m \in 1..2 : MatchCount(text, markers[m]) > 0
    /\ MarkerKeys(findings) = {}

\* C8: with verbose unset, a marker of log_odds below 1.5 is skipped before
\* matching: the turn of the loop on it leaves the findings, their counters
\* and seen_patterns as they were, and the low list is empty throughout.
C8_LowSkippedUnlessVerbose ==
    /\ [](~verbose => findings.low = <<>>)
    /\ [][(/\ pc = "markers"
            /\ idx <= Len(markers)
            /\ ~verbose
            /\ markers[idx].log_odds < 15)
           => findings' = findings /\ seen_patterns' = seen_patterns]_vars

\* C8 witness: verbose unset; the loop has just passed a marker of log_odds
\* 1.4 that is not excluded and matches the document, and a marker of the
\* same item comes next.
C8_Witness ==
    /\ pc = "markers"
    /\ ~verbose
    /\ idx = 2
    /\ Len(markers) = 2
    /\ markers[1].log_odds < 15
    /\ ~IsExcluded(markers[1].item, technical)
    /\ MatchCount(text, markers[1]) > 0
    /\ PatternKey(markers[2].item) = PatternKey(markers[1].item)
    /\ markers[2].log_odds >= 15
    /\ seen_patterns = EmptyMap
    /\ findings.stats.patterns_found = 0

EmptyText == [toks |-> <<>>, pad |-> 0]

\* C9: scanning the empty string does not raise; check_text returns with
\* total_words 0 and patterns_found 0, every list empty, and the score of
\* the result is 100, whatever the markers.
C9_EmptyText ==
    text = EmptyText =>
        /\ pc # "raised"
        /\ Returned =>
              /\ findings.stats.total_words = 0
              /\ findings.stats.patterns_found = 0
              /\ \A sev \in Severities : findings[sev] = <<>>
        /\ pc = "scored" => score = 100

\* C9 witness: the empty string was scanned against two markers and scored.
C9_Witness ==
    /\ text = EmptyText
    /\ Len(markers) = 2
    /\ pc = "scored"
    /\ score = 100

(***************************************************************************)
(* Properties of the checks made once per document (checked under          *)
(* SpecLayout)                                                             *)
(***************************************************************************)
\* C10: check_text returns an em-dash finding if and only if the em-dash
\* occurrences divided by the length in characters, times 1000, exceed 1.0;
\* the finding is high, is counted in high_severity and patterns_found, and
\* its count is the number of em-dash occurrences.
C10_EmDashRate ==
    Returned =>
        LET hits == {p \in Listed(findings) :
                        At(findings, p).pattern = "em dash"}
        IN /\ hits # {} <=> EmDashCount(text) * 1000 > 1 * TotalChars(text)
           /\ Cardinality(hits) <= 1
           /\ \A p \in hits :
                  /\ p[1] = "high"
                  /\ At(findings, p).severity = "high"
                  /\ At(findings, p).count = EmDashCount(text)
           /\ findings.stats.high_severity = Len(findings.high)
           /\ findings.stats.patterns_found =
                  Len(findings.high) + Len(findings.medium) + Len(findings.low)

\* C10 witness: a document with a U+2014 and a "--" among other words came
\* back with the em-dash finding of count 2.
C10_Witness ==
    /\ pc = "returned"
    /\ \E i, j \in Positions(text) :
           text.toks[i] = "EMDASH" /\ text.toks[j] = "--"
    /\ text.pad > 0
    /\ \E n \in 1..Len(findings.high) :
           findings.high[n].pattern = "em dash" /\ findings.high[n].count = 2

TechnicalRun == IF technical THEN findings ELSE earlier.findings
StrictRun == IF technical THEN earlier.findings ELSE findings

\* C7: for one document, marker list and verbose flag, patterns_found of
\* the call with technical set is never greater than patterns_found of
\* the call with technical unset.
C7_TechnicalFindsNoMore ==
    calls = 2 /\ Returned /\ technical # earlier.technical =>
        TechnicalRun.stats.patterns_found <= StrictRun.stats.patterns_found

\* C7 witness: the technical call found two patterns fewer than the other:
\* a marker of the technical catalogues was excluded, and paragraphs of
\* 20 to 39 words are short only for the call with technical unset.
C7_Witness ==
    /\ calls = 2
    /\ pc = "returned"
    /\ technical
    /\ ~earlier.technical
    /\ "python" \in MarkerKeys(earlier.findings)
    /\ \E n \in 1..Len(earlier.findings.medium) :
           earlier.findings.medium[n].pattern = "Short paragraphs"
    /\ \A p \in Listed(findings) : At(findings, p).pattern # "Short paragraphs"
    /\ findings.stats.patterns_found + 2 = earlier.findings.stats.patterns_found

(***************************************************************************)
(* Marker extraction (src/analyze.py): calculate_log_odds_ratio            *)
(*                                                                         *)
(* The floats of the scorer are kept in ten-thousandths (1.0 is 10000);    *)
(* the counts plus the smoothing 0.5 are kept doubled (count + 0.5 is the  *)
(* odd number 2 * count + 1), so that rates and the terms under the square *)
(* root are quotients of integers.                                         *)
(***************************************************************************)
\* An exception left the function.
Raised == [raised |-> TRUE]

\* math.log on the integers 1..100, in ten-thousandths: the logarithm of a
\* prime is rounded and the logarithm of a product is the sum of its
\* factors' logarithms, so that the logarithm of a quotient that is 1 is 0,
\* as math.log(1.0) is.
LnTable ==
  <<
     0, 6931, 10986, 13862, 16094, 17917, 19459, 20793,
     21972, 23025, 23979, 24848, 25649, 26390, 27080, 27724,
     28332, 28903, 29444, 29956, 30445, 30910, 31355, 31779,
     32188, 32580, 32958, 33321, 33673, 34011, 34340, 34655,
     34965, 35263, 35553, 35834, 36109, 36375, 36635, 36887,
     37136, 37376, 37612, 37841, 38066, 38286, 38501, 38710,
     38918, 39119, 39318, 39511, 39703, 39889, 40073, 40252,
     40430, 40604, 40775, 40942, 41109, 41271, 41431, 41586,
     41743, 41896, 42047, 42194, 42341, 42484, 42627, 42765,
     42905, 43040, 43174, 43306, 43438, 43566, 43694, 43818,
     43944, 44067, 44188, 44307, 44426, 44543, 44659, 44772,
     44886, 44997, 45108, 45217, 45326, 45432, 45538, 45641,
     45747, 45849, 45951, 46050
  >>

\* math.log(k)
Ln(k) == LnTable[k]

\* math.sqrt, on an integer in units of 10^-8, in ten-thousandths.
Isqrt(x) ==
    LET RECURSIVE Search(_, _)
        Search(lo, hi) ==
            IF lo = hi THEN lo
            ELSE LET mid == (lo + hi + 1) \div 2
                 IN IF mid * mid <= x THEN Search(mid, hi)
                    ELSE Search(lo, mid - 1)
    IN Search(0, 46340)

\* x with the smoothing 0.5 left out, doubled.
Unsmoothed(x) == 2 * x

\* x + smoothing, doubled (smoothing = 0.5).
Smoothed(x) == 2 * x + 1

\* The four cells under the square root, doubled:
\* opus_count + smoothing, opus_total - opus_count + smoothing,
\* human_count + smoothing, human_total - human_count + smoothing.
\* opus_total + 2 * smoothing, doubled, is cells[1] + cells[2].
Cells(s) ==
    <<Smoothed(s.opus_count), Smoothed(s.opus_total - s.opus_count),
      Smoothed(s.human_count), Smoothed(s.human_total - s.human_count)>>

\* math.log(human_rate / opus_rate): the ratio turned over.
LogRatioInverted(c) == Ln(c[3]) + Ln(c[1] + c[2]) - Ln(c[3] + c[4]) - Ln(c[1])

\* math.log(opus_rate / human_rate) with opus_rate = c[1] / (c[1] + c[2])
\* and human_rate = c[3] / (c[3] + c[4]).
LogRatio(c) == Ln(c[1]) + Ln(c[3] + c[4]) - Ln(c[1] + c[2]) - Ln(c[3])

\* The sign of 1/x1 + 1/x2 + 1/x3 + 1/x4 for the four cells (none is 0),
\* computed exactly.
VarianceSign(c) ==
    LET num == c[2] * c[3] * c[4] + c[1] * c[3] * c[4]
                 + c[1] * c[2] * c[4] + c[1] * c[2] * c[3]
        den == c[1] * c[2] * c[3] * c[4]
    IN IF num = 0 THEN 0
       ELSE IF (num > 0) = (den > 0) THEN 1 ELSE -1

\* The sum without the terms of the two counts.
VarianceOfComplements(c) == 200000000 \div c[2] + 200000000 \div c[4]

\* 1/x1 + 1/x2 + 1/x3 + 1/x4 in units of 10^-8 (1/x is 2/(2x)).
Variance(c) ==
    200000000 \div c[1] + 200000000 \div c[2]
      + 200000000 \div c[3] + 200000000 \div c[4]

\* (log_odds, ci_lower, ci_upper) for a standard error se; z = 1.96.
Interval(c, se) ==
    [log_odds |-> LogRatio(c),
     ci_lower |-> LogRatio(c) - (196 * se) \div 100,
     ci_upper |-> LogRatio(c) + (196 * se) \div 100]

\* What a call of calculate_log_odds_ratio can do on non-negative counts
\* and totals.  It raises ZeroDivisionError on a zero divisor, ValueError
\* on the logarithm of a rate ratio that is not positive and on the square
\* root of a negative sum.  A sum that is exactly zero (a count above its
\* total) is rounded by the float additions to zero or to either side of
\* it: the call raises or returns an interval of width zero.
calculate_log_odds_ratio(s) ==
    LET c == Cells(s)
    IN IF \E k \in 1..4 : c[k] = 0 THEN {Raised}
       ELSE IF c[1] + c[2] <= 0 \/ c[3] + c[4] <= 0 \/ c[1] < 0 \/ c[3] < 0
            THEN {Raised}
       ELSE IF VarianceSign(c) < 0 THEN {Raised}
       ELSE IF VarianceSign(c) = 0 THEN {Raised, Interval(c, 0)}
       ELSE {Interval(c, Isqrt(Variance(c)))}

\* Bounds of the scorer's inputs: counts and totals.
MaxOddsCount == 3

MaxOddsTotal == 6

\* The checker's variables while the extraction side runs.
ScannerIdle ==
    /\ text = [toks |-> <<>>, pad |-> 0]
    /\ verbose = FALSE
    /\ technical = FALSE
    /\ idx = 1
    /\ findings = None
    /\ seen_patterns = None
    /\ score = None

\* The arguments of calculate_log_odds_ratio.  The function checks nothing:
\* a count above its total is accepted.
Samples ==
    [opus_count : 0..MaxOddsCount, human_count : 0..MaxOddsCount,
     opus_total : 0..MaxOddsTotal, human_total : 0..MaxOddsTotal]

\* Totals at least their counts.
ValidSample(s) == s.opus_count <= s.opus_total /\ s.human_count <= s.human_total

InitOdds ==
    /\ sample \in Samples
    /\ odds = None
    /\ pc = "odds"
    /\ calls = 1
    /\ earlier = None
    /\ markers = <<>>
    /\ ScannerIdle
    /\ DriverIdle
    /\ ngram_args = None /\ ngrams = None /\ words = None /\ counters = None
    /\ corpora = None /\ family_markers = None /\ summary_stats = None
    /\ lines = None /\ texts = None

\* One call of calculate_log_odds_ratio(opus_count, human_count,
\* opus_total, human_total).
CallLogOdds ==
    /\ pc = "odds"
    /\ odds' \in calculate_log_odds_ratio(sample)
    /\ pc' = "odds_done"
    /\ UNCHANGED <<sample, calls, earlier, markers>>
    /\ UNCHANGED scan_vars
    /\ UNCHANGED driver_vars
    /\ UNCHANGED <<ngram_args, ngrams, words, counters, corpora,
                   family_markers, summary_stats, lines, texts>>

\* A second call with the same totals and both counts increased in the
\* same proportion, each count staying within its total.
CallScaled ==
    /\ pc = "odds_done"
    /\ calls = 1
    /\ odds # Raised
    /\ \E oc \in 0..MaxOddsTotal, hc \in 0..MaxOddsTotal :
          /\ oc > sample.opus_count
          /\ hc > sample.human_count
          /\ oc * sample.human_count = hc * sample.opus_count
          /\ oc <= sample.opus_total
          /\ hc <= sample.human_total
          /\ sample' = [sample EXCEPT !.opus_count = oc, !.human_count = hc]
    /\ earlier' = [sample |-> sample, odds |-> odds]
    /\ calls' = 2
    /\ odds' = None
    /\ pc' = "odds"
    /\ UNCHANGED markers
    /\ UNCHANGED scan_vars
    /\ UNCHANGED driver_vars
    /\ UNCHANGED <<ngram_args, ngrams, words, counters, corpora,
                   family_markers, summary_stats, lines, texts>>

NextOdds == CallLogOdds \/ CallScaled

SpecOdds == InitOdds /\ [][NextOdds]_vars

\* The call has returned or raised.
OddsDone == pc = "odds_done"

\* The smoothed rates (count + 0.5) / (total + 1) compared by cross
\* multiplication: 1 when the candidate's is higher, -1 when the
\* reference's is higher, 0 when they are equal.
SmoothedRateOrder(s) ==
    LET o == (2 * s.opus_count + 1) * (s.human_total + 1)
        h == (2 * s.human_count + 1) * (s.opus_total + 1)
    IN IF o > h THEN 1 ELSE IF o < h THEN -1 ELSE 0

\* C13: calculate_log_odds_ratio does not raise on non-negative counts and
\* totals with each total at least its count, zero counts included: the
\* two smoothed rates are positive and each of the four terms under the
\* square root has a positive denominator, so the three values returned
\* are finite numbers.
C13_NoRaiseOnValidCounts ==
    (OddsDone /\ ValidSample(sample)) =>
        /\ odds # Raised
        /\ \A k \in 1..4 : Cells(sample)[k] > 0
        /\ odds.log_odds \in Int /\ odds.ci_lower \in Int /\ odds.ci_upper \in Int

\* C13 witness: the scorer has returned on the input (0, 0, T, T), T > 0.
C13_Witness ==
    /\ OddsDone
    /\ sample.opus_count = 0 /\ sample.human_count = 0
    /\ sample.opus_total > 0 /\ sample.human_total = sample.opus_total
    /\ odds # Raised

Width(r) == r.ci_upper - r.ci_lower

\* Two calls have returned, the second with the same totals and both
\* counts increased in the same proportion.
ScaledPair ==
    /\ OddsDone /\ calls = 2 /\ odds # Raised
    /\ sample.opus_count > earlier.sample.opus_count
    /\ sample.human_count > earlier.sample.human_count

\* C15 as stated: for fixed totals, increasing both counts proportionally
\* narrows ci_upper - ci_lower.
C15_WidthNarrows == ScaledPair => Width(odds) < Width(earlier.odds)

\* C15 amended: for fixed totals, increasing both counts proportionally
\* narrows ci_upper - ci_lower when each increased count is at most half
\* of its total.
C15_WidthNarrowsBelowHalf ==
    (ScaledPair /\ 2 * sample.opus_count <= sample.opus_total
                /\ 2 * sample.human_count <= sample.human_total) =>
        Width(odds) < Width(earlier.odds)

\* C15 witness: both counts were doubled to exactly half of their totals
\* and the interval of the second call is narrower.
C15_Witness ==
    /\ ScaledPair
    /\ 2 * sample.opus_count = sample.opus_total
    /\ 2 * sample.human_count = sample.human_total
    /\ sample.opus_count = 2 * earlier.sample.opus_count
    /\ Width(odds) < Width(earlier.odds)

(***************************************************************************)
(* Marker extraction: get_ngrams                                           *)
(***************************************************************************)
\* range(k): the integers 0 .. k-1 in order, none when k <= 0.
Range(k) == [i \in 1..Max(0, k) |-> i - 1]

\* words[lo:hi] for 0 <= lo: the items at the 0-based positions lo .. hi-1
\* that exist.
Slice(ws, lo, hi) ==
    [j \in 1..Max(0, Min(hi, Len(ws)) - lo) |-> ws[lo + j]]

\* " ".join(parts)
Join(parts) ==
    LET RECURSIVE From(_)
        From(k) == IF k > Len(parts) THEN ""
                   ELSE IF k = Len(parts) THEN parts[k]
                   ELSE parts[k] \o " " \o From(k + 1)
    IN From(1)

\* range(len(words) - n): one start position too few.
get_ngrams_short(ws, n) ==
    [k \in 1..Len(Range(Len(ws) - n)) |->
        Join(Slice(ws, Range(Len(ws) - n)[k], Range(Len(ws) - n)[k] + n))]

\* [" ".join(words[i:i+n]) for i in range(len(words) - n + 1)]
get_ngrams(ws, n) ==
    [k \in 1..Len(Range(Len(ws) - n + 1)) |->
        Join(Slice(ws, Range(Len(ws) - n + 1)[k], Range(Len(ws) - n + 1)[k] + n))]

\* Bounds of the word lists and of n in the calls of get_ngrams.
MaxNgramWords == 3

MaxN == 3

\* The tokens of the word lists.
Tokens == {"a", "b", "c"}

InitNgrams ==
    /\ ngram_args \in [words : SeqsUpTo(Tokens, MaxNgramWords), n : 1..MaxN]
    /\ ngrams = None
    /\ pc = "ngrams"
    /\ calls = 1
    /\ earlier = None
    /\ markers = <<>>
    /\ ScannerIdle
    /\ DriverIdle
    /\ sample = None /\ odds = None /\ words = None /\ counters = None
    /\ corpora = None /\ family_markers = None /\ summary_stats = None
    /\ lines = None /\ texts = None

\* One call of get_ngrams(words, n).
CallNgrams ==
    /\ pc = "ngrams"
    /\ ngrams' = get_ngrams(ngram_args.words, ngram_args.n)
    /\ pc' = "ngrams_done"
    /\ UNCHANGED <<ngram_args, calls, earlier, markers>>
    /\ UNCHANGED scan_vars
    /\ UNCHANGED driver_vars
    /\ UNCHANGED <<sample, odds, words, counters, corpora, family_markers,
                   summary_stats, lines, texts>>

NextNgrams == CallNgrams

SpecNgrams == InitNgrams /\ [][NextNgrams]_vars

\* The n words from the 1-based position i on, with a single space
\* between neighbours, built from the last word backwards.
Spaced(ws, i, n) ==
    LET RECURSIVE UpTo(_)
        UpTo(k) == IF k = 1 THEN ws[i]
                   ELSE UpTo(k - 1) \o " " \o ws[i + k - 1]
    IN UpTo(n)

\* C16: for n >= 1, get_ngrams(words, n) returns max(0, len(words) - n + 1)
\* strings; the i-th is the words i .. i+n-1 joined by single spaces; the
\* result is empty when len(words) < n and is the words themselves when
\* n = 1.
C16_NgramsAreWindows ==
    (pc = "ngrams_done") =>
        LET ws == ngram_args.words
            n == ngram_args.n
        IN /\ Len(ngrams) = Max(0, Len(ws) - n + 1)
           /\ \A i \in 1..Len(ngrams) : ngrams[i] = Spaced(ws, i, n)
           /\ (Len(ws) < n) => ngrams = <<>>
           /\ (n = 1) => ngrams = ws

\* C16 witness: the bigrams of a list of three different words are the
\* two windows in order.
C16_Witness ==
    /\ pc = "ngrams_done"
    /\ ngram_args.words = <<"a", "b", "c">>
    /\ ngram_args.n = 2
    /\ ngrams = <<"a b", "b c">>

(***************************************************************************)
(* Marker extraction: the n-gram counters of analyze_lexical_patterns      *)
(***************************************************************************)
\* Counter(): no keys.
EmptyCounter == [g \in {} |-> 0]

\* Counter.update(items): one more for every item of the list.
CounterUpdate(c, items) ==
    LET RECURSIVE Add(_, _)
        Add(acc, k) ==
            IF k > Len(items) THEN acc
            ELSE Add([g \in DOMAIN acc \cup {items[k]} |->
                         IF g = items[k]
                         THEN (IF g \in DOMAIN acc THEN acc[g] ELSE 0) + 1
                         ELSE acc[g]], k + 1)
    IN Add(c, 1)

\* [w for words in corpus for w in words]
Flatten(corpus) ==
    LET RECURSIVE Cat(_)
        Cat(k) == IF k > Len(corpus) THEN <<>> ELSE corpus[k] \o Cat(k + 1)
    IN Cat(1)

\* The n-grams of the flattened corpus counted in one call.
NgramCounterFlat(corpus, n) == CounterUpdate(EmptyCounter, get_ngrams(Flatten(corpus), n))

\* counter = Counter(); for words in corpus: counter.update(get_ngrams(words, n))
NgramCounter(corpus, n) ==
    LET RECURSIVE Loop(_, _)
        Loop(acc, k) ==
            IF k > Len(corpus) THEN acc
            ELSE Loop(CounterUpdate(acc, get_ngrams(corpus[k], n)), k + 1)
    IN Loop(EmptyCounter, 1)

\* sum(counter.values())
CounterTotal(c) == Sum(c, DOMAIN c)

\* Bounds of the tokenized corpora: documents per corpus, words per document.
MaxDocs == 2

MaxDocWords == 3

\* The tokens of the documents.
DocTokens == {"a", "b"}

\* The candidate corpus: up to MaxDocs documents of up to MaxDocWords words.
OpusWordLists == SeqsUpTo(SeqsUpTo(DocTokens, MaxDocWords), MaxDocs)

\* The reference corpus: none, or two documents.
HumanWordLists == {<<>>, <<<<"a", "b", "a">>, <<"b">>>>}

InitCount ==
    /\ words \in [opus : OpusWordLists, human : HumanWordLists]
    /\ counters = [opus_bigrams |-> EmptyCounter, human_bigrams |-> EmptyCounter,
                   opus_trigrams |-> EmptyCounter, human_trigrams |-> EmptyCounter]
    /\ pc = "bigrams"
    /\ calls = 1
    /\ earlier = None
    /\ markers = <<>>
    /\ ScannerIdle
    /\ DriverIdle
    /\ sample = None /\ odds = None /\ ngram_args = None /\ ngrams = None
    /\ corpora = None /\ family_markers = None /\ summary_stats = None
    /\ lines = None /\ texts = None

\* analyze_lexical_patterns: the two loops that count bigrams.
CountBigrams ==
    /\ pc = "bigrams"
    /\ counters' = [counters EXCEPT
                       !.opus_bigrams = NgramCounter(words.opus, 2),
                       !.human_bigrams = NgramCounter(words.human, 2)]
    /\ pc' = "trigrams"
    /\ UNCHANGED <<words, calls, earlier, markers>>
    /\ UNCHANGED scan_vars
    /\ UNCHANGED driver_vars
    /\ UNCHANGED <<sample, odds, ngram_args, ngrams, corpora, family_markers,
                   summary_stats, lines, texts>>

\* analyze_lexical_patterns: the two loops that count trigrams.
CountTrigrams ==
    /\ pc = "trigrams"
    /\ counters' = [counters EXCEPT
                       !.opus_trigrams = NgramCounter(words.opus, 3),
                       !.human_trigrams = NgramCounter(words.human, 3)]
    /\ pc' = "counted"
    /\ UNCHANGED <<words, calls, earlier, markers>>
    /\ UNCHANGED scan_vars
    /\ UNCHANGED driver_vars
    /\ UNCHANGED <<sample, odds, ngram_args, ngrams, corpora, family_markers,
                   summary_stats, lines, texts>>

NextCount == CountBigrams \/ CountTrigrams

SpecCount == InitCount /\ [][NextCount]_vars

\* The start positions in one document at which the n-gram g stands.
Occurrences(d, g, n) == {i \in 1..(Len(d) - n + 1) : Spaced(d, i, n) = g}

\* The n-grams that stand inside some document of the corpus.
GramsWithin(corpus, n) ==
    UNION {{Spaced(corpus[k], i, n) : i \in 1..(Len(corpus[k]) - n + 1)} :
             k \in 1..Len(corpus)}

\* The counter holds, for exactly the n-grams standing inside a document,
\* the sum of the per-document counts, and its total is the sum over the
\* documents of max(0, tokens - n + 1).
CountsPerDocument(c, corpus, n) ==
    /\ DOMAIN c = GramsWithin(corpus, n)
    /\ \A g \in DOMAIN c :
          c[g] = Sum([k \in 1..Len(corpus) |-> Cardinality(Occurrences(corpus[k], g, n))],
                     1..Len(corpus))
    /\ CounterTotal(c) = Sum([k \in 1..Len(corpus) |-> Max(0, Len(corpus[k]) - n + 1)],
                             1..Len(corpus))

\* C17: the corpus bigram and trigram counts are the sums of the
\* per-document counts, no n-gram is formed across two documents, the
\* bigram total is the sum over documents of max(0, tokens - 1) and the
\* trigram total the sum of max(0, tokens - 2).
C17_NgramsStayInDocuments ==
    /\ (pc \in {"trigrams", "counted"}) =>
          /\ CountsPerDocument(counters.opus_bigrams, words.opus, 2)
          /\ CountsPerDocument(counters.human_bigrams, words.human, 2)
    /\ (pc = "counted") =>
          /\ CountsPerDocument(counters.opus_trigrams, words.opus, 3)
          /\ CountsPerDocument(counters.human_trigrams, words.human, 3)

\* C17 witness: two documents "a b" were counted; the bigram "a b" has
\* count 2 and the bigram "b a" over the document boundary has none.
C17_Witness ==
    /\ pc = "counted"
    /\ words.opus = <<<<"a", "b">>, <<"a", "b">>>>
    /\ counters.opus_bigrams["a b"] = 2
    /\ "b a" \notin DOMAIN counters.opus_bigrams
    /\ CounterTotal(counters.opus_trigrams) = 0

(***************************************************************************)
(* Marker extraction: run_analysis and the three marker families           *)
(*                                                                         *)
(* A corpus is kept by what the families read of it: the number of texts   *)
(* and characters, the totals of its counters, and the counts behind its   *)
(* summary statistics.  The keys of the counters are the candidate rows,   *)
(* each with its count in the two corpora, in the order in which the       *)
(* family's loop meets them (the loops run over sets: any order).          *)
(***************************************************************************)
\* The candidate did not become a marker (continue).
Skipped == [skipped |-> TRUE]

\* The kinds of candidates; a phrase's marker type is "phrase_" + category.
Kinds == {"word", "bigram", "trigram", "sentence_starter", "phrase"}

LexicalKinds == <<"word", "bigram", "trigram">>

\* The floors of the candidate count: if opus_count < floor: continue.
WORD_MIN_COUNT == 5

NGRAM_MIN_COUNT == 3

STARTER_MIN_COUNT == 3

PHRASE_MIN_COUNT == 2

\* No floor at all.
MinCountNone(kind) == 0

MinCount(kind) ==
    CASE kind = "word" -> WORD_MIN_COUNT
      [] kind \in {"bigram", "trigram"} -> NGRAM_MIN_COUNT
      [] kind = "sentence_starter" -> STARTER_MIN_COUNT
      [] kind = "phrase" -> PHRASE_MIN_COUNT

\* The minimum ratio of the rates as a quotient: 2 for words and n-grams,
\* 1.5 for starters and phrases.
MinRatio(kind) ==
    IF kind \in {"word", "bigram", "trigram"} THEN <<2, 1>> ELSE <<3, 2>>

\* The counter total a kind's rates are taken over: tokens, n-grams,
\* sentence starters, and characters for phrases.
Total(side, kind) ==
    CASE kind = "word" -> side.tokens
      [] kind = "bigram" -> side.bigram_total
      [] kind = "trigram" -> side.trigram_total
      [] kind = "sentence_starter" -> side.starter_total
      [] kind = "phrase" -> side.chars

\* The total handed to the scorer: characters // 100 for phrases.
ScorerTotal(side, kind) ==
    IF kind = "phrase" THEN Total(side, kind) \div 100 ELSE Total(side, kind)

\* opus_rate < k * human_rate with opus_rate = opus_count / opus_total and
\* human_rate = (human_count + 0.5) / (human_total + 1), for opus_total > 0.
RateTooLow(row, ot, ht) ==
    row.opus_count * MinRatio(row.kind)[2] * 2 * (ht + 1)
        < MinRatio(row.kind)[1] * (2 * row.human_count + 1) * ot

\* Every interval counts as significant.
SignificantAlways(r) == TRUE

\* not (ci_lower <= 0)
Significant(r) == r.ci_lower > 0

\* Marker(type=..., item=..., log_odds=..., ci_lower=..., ci_upper=...,
\*        opus_count=..., human_count=...)
MarkerOf(row, r) ==
    [type |-> IF row.kind = "phrase" THEN "phrase_" \o row.category ELSE row.kind,
     item |-> row.item,
     log_odds |-> r.log_odds,
     ci_lower |-> r.ci_lower,
     ci_upper |-> r.ci_upper,
     opus_count |-> row.opus_count,
     human_count |-> row.human_count]

\* The body of a family's loop for one candidate: Skipped, Raised or the
\* marker appended.
CandidateOutcomes(row, opus, human) ==
    LET ot == Total(opus, row.kind)
        ht == Total(human, row.kind)
    IN IF row.kind = "sentence_starter" /\ Len(row.item) < 2 THEN {Skipped}
       ELSE IF row.opus_count < MinCount(row.kind) THEN {Skipped}
       ELSE IF ot = 0 THEN {Raised}
       ELSE IF RateTooLow(row, ot, ht) THEN {Skipped}
       ELSE {IF r = Raised THEN Raised
             ELSE IF Significant(r) THEN MarkerOf(row, r) ELSE Skipped :
               r \in calculate_log_odds_ratio(
                        [opus_count |-> row.opus_count,
                         human_count |-> row.human_count,
                         opus_total |-> ScorerTotal(opus, row.kind),
                         human_total |-> ScorerTotal(human, row.kind)])}

\* What a family returns: its markers, or nothing when an exception left it.
Returns(ms) == [raised |-> FALSE, markers |-> ms]

Fails == [raised |-> TRUE, markers |-> <<>>]

\* The candidates of one kind, in the order of the loop.
RowsOf(c, kind) == SelectSeq(c.candidates, LAMBDA row : row.kind = kind)

\* One loop over the candidates of a kind, started with the markers ms:
\* the ways it can end.
LoopOutcomes(c, kind, ms) ==
    LET rows == RowsOf(c, kind)
        RECURSIVE Run(_, _)
        Run(k, acc) ==
            IF k > Len(rows) THEN {Returns(acc)}
            ELSE UNION {IF o = Raised THEN {Fails}
                        ELSE IF o = Skipped THEN Run(k + 1, acc)
                        ELSE Run(k + 1, Append(acc, o)) :
                          o \in CandidateOutcomes(rows[k], c.opus, c.human)}
    IN Run(1, ms)

\* analyze_lexical_patterns: unigrams, then bigrams, then trigrams.
analyze_lexical_patterns(c) ==
    LET RECURSIVE Families(_, _)
        Families(j, ms) ==
            IF j > Len(LexicalKinds) THEN {Returns(ms)}
            ELSE UNION {IF o.raised THEN {Fails} ELSE Families(j + 1, o.markers) :
                          o \in LoopOutcomes(c, LexicalKinds[j], ms)}
    IN Families(1, <<>>)

\* A quotient num / den of two integers, den > 0.
Quotient(num, den) == <<num, den>>

\* sum(xs) / len(xs) if xs else 0
GuardedAverage(total, n) == IF n > 0 THEN Quotient(total, n) ELSE Quotient(0, 1)

\* The types counted by count_punctuation.
PunctTypes ==
    {"em_dash", "semicolon", "colon", "exclamation", "question", "parentheses", "quotes"}

\* The statistics analyze_structural_patterns fills in; the punctuation
\* rates divide by the corpus's characters without a test.
StructuralStats(c) ==
    [opus_avg_sentence_length |-> GuardedAverage(c.opus.sentence_words, c.opus.sentences),
     human_avg_sentence_length |-> GuardedAverage(c.human.sentence_words, c.human.sentences),
     opus_per_1k |-> [t \in PunctTypes |-> Quotient(c.opus.punct[t] * 1000, c.opus.chars)],
     human_per_1k |-> [t \in PunctTypes |-> Quotient(c.human.punct[t] * 1000, c.human.chars)],
     opus_list_items_per_text |-> GuardedAverage(c.opus.list_items, c.opus.texts),
     human_list_items_per_text |-> GuardedAverage(c.human.list_items, c.human.texts),
     opus_avg_para_length |-> GuardedAverage(c.opus.paragraph_words, c.opus.paragraphs),
     human_avg_para_length |-> GuardedAverage(c.human.paragraph_words, c.human.paragraphs),
     enhanced |-> FALSE]

\* analyze_structural_patterns: the starter markers and the summary
\* statistics, or an exception (ZeroDivisionError at the punctuation rates
\* of a corpus without characters).
analyze_structural_patterns(c) ==
    UNION {IF o.raised \/ c.opus.chars = 0 \/ c.human.chars = 0
           THEN {[raised |-> TRUE, markers |-> <<>>, summary_stats |-> None]}
           ELSE {[raised |-> FALSE, markers |-> o.markers,
                  summary_stats |-> StructuralStats(c)]} :
             o \in LoopOutcomes(c, "sentence_starter", <<>>)}

\* analyze_phrase_patterns
analyze_phrase_patterns(c) == LoopOutcomes(c, "phrase", <<>>)

\* The list unchanged.
Unsorted(ms) == ms

\* list.sort(key=lambda m: -m.log_odds): stable, descending log_odds.
SortByLogOdds(ms) ==
    LET RECURSIVE Insert(_, _)
        Insert(sorted, m) ==
            IF sorted = <<>> THEN <<m>>
            ELSE IF sorted[Len(sorted)].log_odds >= m.log_odds
                 THEN Append(sorted, m)
                 ELSE Append(Insert(SubSeq(sorted, 1, Len(sorted) - 1), m),
                             sorted[Len(sorted)])
        RECURSIVE Build(_)
        Build(k) == IF k = 0 THEN <<>> ELSE Insert(Build(k - 1), ms[k])
    IN Build(Len(ms))

\* Bound of a candidate's count in the candidate corpus.
MaxCandidateCount == 6

\* The counts of a candidate in the reference corpus: absent, present,
\* frequent.
ReferenceCounts == {0, 5, 20}

\* No punctuation counted.
NoPunct == [t \in PunctTypes |-> 0]

\* A corpus without texts.
EmptySide ==
    [texts |-> 0, chars |-> 0, tokens |-> 0, bigram_total |-> 0,
     trigram_total |-> 0, starter_total |-> 0, sentences |-> 0,
     sentence_words |-> 0, punct |-> NoPunct, list_items |-> 0,
     paragraphs |-> 0, paragraph_words |-> 0]

\* A candidate corpus of two texts, ten tokens and six sentences.
OpusSide ==
    [texts |-> 2, chars |-> 400, tokens |-> 10, bigram_total |-> 8,
     trigram_total |-> 6, starter_total |-> 6, sentences |-> 6,
     sentence_words |-> 12, punct |-> [NoPunct EXCEPT !["em_dash"] = 2],
     list_items |-> 1, paragraphs |-> 2, paragraph_words |-> 12]

\* A reference corpus of four texts, forty tokens and thirty sentences.
HumanSide ==
    [texts |-> 4, chars |-> 4000, tokens |-> 40, bigram_total |-> 36,
     trigram_total |-> 32, starter_total |-> 30, sentences |-> 30,
     sentence_words |-> 60, punct |-> [NoPunct EXCEPT !["colon"] = 3],
     list_items |-> 0, paragraphs |-> 6, paragraph_words |-> 60]

\* Two keys of each kind's counter; the phrases are of the catalogue.
Item(kind, k) ==
    CASE kind = "word" -> <<"delve", "tapestry">>[k]
      [] kind = "bigram" -> <<"delve into", "rich tapestry">>[k]
      [] kind = "trigram" -> <<"delve into the", "a rich tapestry">>[k]
      [] kind = "sentence_starter" -> <<"however", "moreover">>[k]
      [] kind = "phrase" -> <<"in general", "that said">>[k]

\* A candidate: a key with its counts in the two corpora.
Row(kind, item, oc, hc) ==
    [kind |-> kind, item |-> item,
     category |-> IF kind = "phrase" THEN "hedging" ELSE "",
     opus_count |-> oc, human_count |-> hc]

\* The candidate corpus can hold the count: at most the counter's total
\* (a phrase is counted in the texts, its total is characters).
Holds(side, kind, n) == n <= Total(side, kind)

AllKinds == <<"word", "bigram", "trigram", "sentence_starter", "phrase">>

\* Both corpora present, one candidate.
SingleInputs ==
    {[opus |-> OpusSide, human |-> HumanSide,
      candidates |-> <<Row(kind, Item(kind, 1), oc, hc)>>] :
        kind \in Kinds, oc \in 0..MaxCandidateCount, hc \in ReferenceCounts}

\* Both corpora present, of every kind no candidate, one at its floor or
\* one just above it, absent from the reference corpus.
MixedInputs ==
    LET Levels == [1..5 -> {"none", "floor", "above"}]
        RowAt(lv, j) ==
            IF lv[j] = "none" THEN <<>>
            ELSE <<Row(AllKinds[j], Item(AllKinds[j], 1),
                       MinCount(AllKinds[j]) + (IF lv[j] = "above" THEN 1 ELSE 0), 0)>>
    IN {[opus |-> OpusSide, human |-> HumanSide,
         candidates |-> RowAt(lv, 1) \o RowAt(lv, 2) \o RowAt(lv, 3)
                          \o RowAt(lv, 4) \o RowAt(lv, 5)] : lv \in Levels}

\* Both corpora present, two candidates of one kind at the floor, in either
\* order (the phrases in the order of the catalogue); and a sentence
\* starter of one letter.
PairInputs ==
    {[opus |-> OpusSide, human |-> HumanSide,
      candidates |-> <<Row(p[1], Item(p[1], p[2]), MinCount(p[1]), 0),
                       Row(p[1], Item(p[1], 3 - p[2]), MinCount(p[1]), 0)>>] :
        p \in {q \in Kinds \X (1..2) : q[1] = "phrase" => q[2] = 1}}
    \cup {[opus |-> OpusSide, human |-> HumanSide,
           candidates |-> <<Row("sentence_starter", "i", STARTER_MIN_COUNT, 0)>>]}

\* One corpus or both without texts: the keys come from the other one.
EmptyCorpusInputs ==
    {[opus |-> EmptySide, human |-> EmptySide, candidates |-> <<>>]}
    \cup {[opus |-> EmptySide, human |-> HumanSide, candidates |-> rows] :
            rows \in {<<>>} \cup {<<Row(kind, Item(kind, 1), 0, 5)>> : kind \in Kinds}}
    \cup {[opus |-> OpusSide, human |-> EmptySide, candidates |-> rows] :
            rows \in {<<>>} \cup {<<Row(kind, Item(kind, 1), MinCount(kind), 0)>> : kind \in Kinds}}

\* The corpora as loaded and tokenized by run_analysis.
ExtractInputs ==
    {c \in SingleInputs \cup MixedInputs \cup PairInputs \cup EmptyCorpusInputs :
        \A k \in 1..Len(c.candidates) :
            /\ Holds(c.opus, c.candidates[k].kind, c.candidates[k].opus_count)
            /\ Holds(c.human, c.candidates[k].kind, c.candidates[k].human_count)}

InitExtract ==
    /\ corpora \in ExtractInputs
    /\ family_markers = [lexical |-> <<>>, structural |-> <<>>, phrase |-> <<>>]
    /\ summary_stats = None
    /\ markers = <<>>
    /\ pc = "lexical"
    /\ calls = 1
    /\ earlier = None
    /\ ScannerIdle
    /\ DriverIdle
    /\ sample = None /\ odds = None /\ ngram_args = None /\ ngrams = None
    /\ words = None /\ counters = None /\ lines = None /\ texts = None

\* run_analysis: lexical_markers = analyze_lexical_patterns(...)
Lexical ==
    /\ pc = "lexical"
    /\ \E o \in analyze_lexical_patterns(corpora) :
          IF o.raised
          THEN pc' = "extract_raised" /\ UNCHANGED family_markers
          ELSE /\ pc' = "structural"
               /\ family_markers' = [family_markers EXCEPT !.lexical = o.markers]
    /\ UNCHANGED <<corpora, summary_stats, markers, calls, earlier>>
    /\ UNCHANGED scan_vars
    /\ UNCHANGED driver_vars
    /\ UNCHANGED <<sample, odds, ngram_args, ngrams, words, counters, lines, texts>>

\* run_analysis: structural_markers, summary_stats =
\* analyze_structural_patterns(...)
Structural ==
    /\ pc = "structural"
    /\ \E o \in analyze_structural_patterns(corpora) :
          IF o.raised
          THEN pc' = "extract_raised" /\ UNCHANGED <<family_markers, summary_stats>>
          ELSE /\ pc' = "phrase"
               /\ family_markers' = [family_markers EXCEPT !.structural = o.markers]
               /\ summary_stats' = o.summary_stats
    /\ UNCHANGED <<corpora, markers, calls, earlier>>
    /\ UNCHANGED scan_vars
    /\ UNCHANGED driver_vars
    /\ UNCHANGED <<sample, odds, ngram_args, ngrams, words, counters, lines, texts>>

\* run_analysis: phrase_markers = analyze_phrase_patterns(...)
Phrase ==
    /\ pc = "phrase"
    /\ \E o \in analyze_phrase_patterns(corpora) :
          IF o.raised
          THEN pc' = "extract_raised" /\ UNCHANGED family_markers
          ELSE /\ pc' = "statistics"
               /\ family_markers' = [family_markers EXCEPT !.phrase = o.markers]
    /\ UNCHANGED <<corpora, summary_stats, markers, calls, earlier>>
    /\ UNCHANGED scan_vars
    /\ UNCHANGED driver_vars
    /\ UNCHANGED <<sample, odds, ngram_args, ngrams, words, counters, lines, texts>>

\* run_analysis: the six further analyses, whose divisions are all tested,
\* update summary_stats.
EnhancedStatistics ==
    /\ pc = "statistics"
    /\ summary_stats' = [summary_stats EXCEPT !.enhanced = TRUE]
    /\ pc' = "combine"
    /\ UNCHANGED <<corpora, family_markers, markers, calls, earlier>>
    /\ UNCHANGED scan_vars
    /\ UNCHANGED driver_vars
    /\ UNCHANGED <<sample, odds, ngram_args, ngrams, words, counters, lines, texts>>

\* run_analysis: all_markers = lexical_markers + structural_markers +
\* phrase_markers; all_markers.sort(...); the results are written.
CombineAndSort ==
    /\ pc = "combine"
    /\ markers' = SortByLogOdds(family_markers.lexical \o family_markers.structural
                                  \o family_markers.phrase)
    /\ pc' = "extracted"
    /\ UNCHANGED <<corpora, family_markers, summary_stats, calls, earlier>>
    /\ UNCHANGED scan_vars
    /\ UNCHANGED driver_vars
    /\ UNCHANGED <<sample, odds, ngram_args, ngrams, words, counters, lines, texts>>

NextExtract == Lexical \/ Structural \/ Phrase \/ EnhancedStatistics \/ CombineAndSort

SpecExtract == InitExtract /\ [][NextExtract]_vars

\* The markers the families have returned so far and the persisted ones.
Retained ==
    {family_markers.lexical[k] : k \in 1..Len(family_markers.lexical)}
      \cup {family_markers.structural[k] : k \in 1..Len(family_markers.structural)}
      \cup {family_markers.phrase[k] : k \in 1..Len(family_markers.phrase)}
      \cup {markers[k] : k \in 1..Len(markers)}

\* The marker types that are not phrase types.
PlainTypes == {"word", "bigram", "trigram", "sentence_starter"}

\* C11 as stated: every retained marker has a candidate count above its
\* floor, 5 for word and 3 for bigram, trigram, phrase and
\* sentence_starter.
C11_CountExceedsFloor ==
    \A m \in Retained : m.opus_count > (IF m.type = "word" THEN 5 ELSE 3)

\* C11 amended: every retained marker has a candidate count of at least
\* its floor, 5 for word, 3 for bigram, trigram and sentence_starter, 2 for
\* phrase.
C11_CountAtLeastFloor ==
    \A m \in Retained :
        m.opus_count >= (IF m.type = "word" THEN 5
                         ELSE IF m.type \in PlainTypes THEN 3 ELSE 2)

\* C11 witness: the persisted list holds a word marker of count 5 and a
\* phrase marker of count 2.
C11_Witness ==
    /\ pc = "extracted"
    /\ \E m \in Retained : m.type = "word" /\ m.opus_count = 5
    /\ \E m \in Retained : m.type \notin PlainTypes /\ m.opus_count = 2

\* C12: every marker emitted by a family has ci_lower > 0 and so
\* log_odds > 0.
C12_SignificantMarkers ==
    \A m \in Retained : m.ci_lower > 0 /\ m.log_odds > 0

\* C12 witness: each of the three families has emitted a marker.
C12_Witness ==
    /\ family_markers.lexical # <<>>
    /\ family_markers.structural # <<>>
    /\ family_markers.phrase # <<>>

\* lexical_markers + structural_markers + phrase_markers
Produced ==
    family_markers.lexical \o family_markers.structural \o family_markers.phrase

\* The number of positions of the list that hold m.
Copies(ms, m) == Cardinality({k \in 1..Len(ms) : ms[k] = m})

\* C18: the persisted marker list is the lexical, structural and phrase
\* markers together, in descending order of log_odds: adjacent markers
\* are non-increasing and the list is a permutation of what the families
\* produced.
C18_SortedPermutation ==
    (pc = "extracted") =>
        /\ \A k \in 1..(Len(markers) - 1) : markers[k].log_odds >= markers[k + 1].log_odds
        /\ Len(markers) = Len(Produced)
        /\ \A k \in 1..Len(Produced) :
              Copies(markers, Produced[k]) = Copies(Produced, Produced[k])

\* C18 witness: five markers were persisted in another order than the
\* families produced them, two of them with equal log_odds.
C18_Witness ==
    /\ pc = "extracted"
    /\ Len(markers) = 5
    /\ markers # Produced
    /\ \E k \in 1..4 : markers[k].log_odds = markers[k + 1].log_odds

\* One of the two corpora has no texts.
EitherCorpusEmpty == corpora.opus.texts = 0 \/ corpora.human.texts = 0

\* Every summary statistic is zero.
ZeroedStats(st) ==
    /\ \A f \in {"opus_avg_sentence_length", "human_avg_sentence_length",
                  "opus_list_items_per_text", "human_list_items_per_text",
                  "opus_avg_para_length", "human_avg_para_length"} : st[f][1] = 0
    /\ \A t \in PunctTypes : st.opus_per_1k[t][1] = 0 /\ st.human_per_1k[t][1] = 0

\* C19: with an empty input corpus the extraction run by run_analysis
\* does not raise; it returns an empty marker list and zeroed summary
\* statistics.
C19_EmptyCorpusReturnsEmpty ==
    EitherCorpusEmpty =>
        /\ pc # "extract_raised"
        /\ (pc = "extracted") => (markers = <<>> /\ ZeroedStats(summary_stats))

(***************************************************************************)
(* Marker extraction: load_corpus                                          *)
(***************************************************************************)
\* The value of a field of a record: a string, or the field is missing.
Absent == [present |-> FALSE, value |-> ""]

Str(v) == [present |-> TRUE, value |-> v]

\* The lines of a corpus file: a JSON object with or without the fields
\* "response" and "text", an empty line, a line that is not JSON, and a
\* JSON array.
ObjectLines ==
    [json : {"object"},
     response : {Absent, Str(""), Str("alpha")},
     text : {Absent, Str(""), Str("beta")}]

OtherLines ==
    [json : {"blank", "malformed", "array"}, response : {Absent}, text : {Absent}]

\* Bound of the number of lines of a corpus file.
MaxLines == 2

\* data.get(key, default)
Get(data, key, default) ==
    IF data[key].present THEN data[key].value ELSE default

\* data.get(text_field, data.get("text", ""))
Payload(data, text_field) == Get(data, text_field, Get(data, "text", ""))

\* json.loads(line) followed by data.get raises on a line that is not a
\* JSON object: JSONDecodeError on an empty or malformed line,
\* AttributeError on an array.
Parses(line) == line.json = "object"

InitLoad ==
    /\ lines \in [path : SeqsUpTo(ObjectLines \cup OtherLines, MaxLines),
                   text_field : {"response", "text"}]
    /\ texts = <<>>
    /\ idx = 1
    /\ pc = "load"
    /\ calls = 1
    /\ earlier = None
    /\ markers = <<>>
    /\ text = [toks |-> <<>>, pad |-> 0]
    /\ verbose = FALSE
    /\ technical = FALSE
    /\ findings = None
    /\ seen_patterns = None
    /\ score = None
    /\ sample = None /\ odds = None /\ ngram_args = None /\ ngrams = None
    /\ words = None /\ counters = None /\ corpora = None
    /\ family_markers = None /\ summary_stats = None
    /\ DriverIdle

\* load_corpus: one turn of 'for line in f'.
LoadLine ==
    /\ pc = "load"
    /\ idx <= Len(lines.path)
    /\ IF ~Parses(lines.path[idx])
       THEN pc' = "load_raised" /\ UNCHANGED <<texts, idx>>
       ELSE /\ texts' = IF Payload(lines.path[idx], lines.text_field) # ""
                         THEN Append(texts, Payload(lines.path[idx], lines.text_field))
                         ELSE texts
            /\ idx' = idx + 1
            /\ pc' = "load"
    /\ UNCHANGED <<lines, calls, earlier, markers>>
    /\ UNCHANGED <<text, verbose, technical, findings, seen_patterns, score>>
    /\ UNCHANGED driver_vars
    /\ UNCHANGED <<sample, odds, ngram_args, ngrams, words, counters, corpora,
                   family_markers, summary_stats>>

\* load_corpus: the file is exhausted, return texts.
ReturnTexts ==
    /\ pc = "load"
    /\ idx > Len(lines.path)
    /\ pc' = "loaded"
    /\ UNCHANGED <<lines, texts, idx, calls, earlier, markers>>
    /\ UNCHANGED <<text, verbose, technical, findings, seen_patterns, score>>
    /\ UNCHANGED driver_vars
    /\ UNCHANGED <<sample, odds, ngram_args, ngrams, words, counters, corpora,
                   family_markers, summary_stats>>

NextLoad == LoadLine \/ ReturnTexts

SpecLoad == InitLoad /\ [][NextLoad]_vars

\* The text payload of a line: the requested field of a record, the field
\* "text" when the requested one is missing, nothing on any other line.
PayloadOfLine(line, text_field) ==
    IF line.json # "object" THEN ""
    ELSE IF line[text_field].present THEN line[text_field].value
    ELSE IF line.text.present THEN line.text.value
    ELSE ""

\* The non-empty payloads of the file in file order.
NonEmptyPayloads ==
    LET RECURSIVE From(_)
        From(k) ==
            IF k > Len(lines.path) THEN <<>>
            ELSE IF PayloadOfLine(lines.path[k], lines.text_field) = "" THEN From(k + 1)
            ELSE <<PayloadOfLine(lines.path[k], lines.text_field)>> \o From(k + 1)
    IN From(1)

\* C20: load_corpus returns, in file order, exactly the non-empty text
\* payloads (the requested field, else "text"); a line without a
\* non-empty payload is skipped without raising and without stopping the
\* load; an empty file gives the empty list.
C20_LoadSkipsSilently ==
    /\ pc # "load_raised"
    /\ (pc = "loaded") => texts = NonEmptyPayloads

\* load_corpus on files of JSON objects only: the result is the non-empty
\* payloads in file order.
LoadOfRecords ==
    (pc = "loaded") => texts = NonEmptyPayloads

(***************************************************************************)
(* check_text: the counters, the lists and by_category on return           *)
(***************************************************************************)
\* C27: on return from check_text the counters agree with the lists:
\* high_severity is the length of the high list, medium_severity that of
\* the medium list, patterns_found the total length of the three lists;
\* no list holds a removal mark, no counter is negative and every finding
\* has a count of at least 1.
C27_CountersAgreeWithLists ==
    Returned =>
        /\ findings.stats.high_severity = Len(findings.high)
        /\ findings.stats.medium_severity = Len(findings.medium)
        /\ findings.stats.patterns_found
             = Len(findings.high) + Len(findings.medium) + Len(findings.low)
        /\ \A p \in Listed(findings) :
              At(findings, p) # None /\ At(findings, p).count >= 1
        /\ findings.stats.high_severity >= 0
        /\ findings.stats.medium_severity >= 0
        /\ findings.stats.patterns_found >= 0
        /\ findings.stats.total_chars >= 0
        /\ findings.stats.total_words >= 0

\* C27 witness: check_text returned after a later marker replaced the
\* finding of an earlier one, with a finding of a once-per-document check
\* in the lists as well.
C27_Witness ==
    /\ Returned
    /\ \E ty \in MarkerTypes : Len(findings.by_category[ty]) = 2
    /\ Cardinality({p \in Listed(findings) : FromMarker(At(findings, p))}) = 1
    /\ \E p \in Listed(findings) : ~FromMarker(At(findings, p))

\* The findings made from markers that stand in the three lists.
ListedMarkerFindings(ty) ==
    {p \in Listed(findings) :
        FromMarker(At(findings, p)) /\ At(findings, p).type = ty}

\* C28: on return from check_text, by_category holds exactly the findings
\* made from markers that remain in the high, medium and low lists; a
\* finding replaced by a marker of higher log_odds is in no by_category
\* entry.
C28_ByCategoryHoldsListed ==
    Returned =>
        \A ty \in MarkerTypes :
            /\ Len(findings.by_category[ty]) = Cardinality(ListedMarkerFindings(ty))
            /\ \A k \in 1..Len(findings.by_category[ty]) :
                  \E p \in ListedMarkerFindings(ty) :
                      At(findings, p) = findings.by_category[ty][k]

(***************************************************************************)
(* Marker extraction: the totals handed to the scorer                      *)
(***************************************************************************)
\* The candidates of the run that get as far as calculate_log_odds_ratio.
ScoredRows ==
    {k \in 1..Len(corpora.candidates) :
        LET row == corpora.candidates[k]
            ot == Total(corpora.opus, row.kind)
            ht == Total(corpora.human, row.kind)
        IN /\ ~(row.kind = "sentence_starter" /\ Len(row.item) < 2)
           /\ row.opus_count >= MinCount(row.kind)
           /\ ot > 0
           /\ ~RateTooLow(row, ot, ht)}

\* C29: every call of calculate_log_odds_ratio by the extractor passes
\* totals that are at least the counts, the phrase family with its
\* characters // 100 included, and the extraction of two non-empty corpora
\* never raises.
C29_TotalsCoverCounts ==
    ~EitherCorpusEmpty =>
        /\ pc # "extract_raised"
        /\ \A k \in ScoredRows :
              LET row == corpora.candidates[k]
              IN /\ row.opus_count <= ScorerTotal(corpora.opus, row.kind)
                 /\ row.human_count <= ScorerTotal(corpora.human, row.kind)

\* The same for the four token families alone, which holds.
TokenTotalsCoverCounts ==
    ~EitherCorpusEmpty =>
        \A k \in ScoredRows :
              LET row == corpora.candidates[k]
              IN row.kind # "phrase" =>
                    /\ row.opus_count <= ScorerTotal(corpora.opus, row.kind)
                    /\ row.human_count <= ScorerTotal(corpora.human, row.kind)

(***************************************************************************)
(* Sample generation: src/generate_samples.py                              *)
(*                                                                         *)
(* Times are in tenths of a second.  clock is time.time() counted from the *)
(* start of the call of generate_samples, which begins at StartClock: the  *)
(* code reads the clock only in time.time() - last_request_time, and with  *)
(* last_request_time = 0 that difference is far above the delay at any     *)
(* real time of day.                                                       *)
(***************************************************************************)
MIN_DELAY_BETWEEN_REQUESTS == 12
RateLimitSleep == 600
RetrySleep == 20
StartClock == 1000

MaxPrompts == 2
MaxRuns == 2

\* The ids of the prompts file, in file order; ids are unique.
PromptIds == <<"p1", "p2", "p3", "p4">>

\* num_samples: None, or a number.
NoLimit == [given |-> FALSE, value |-> 0]

Limit(n) == [given |-> TRUE, value |-> n]

\* A line of the output file: a sample as save_sample writes it, or a line
\* that is not JSON.
SampleLine(id, run) == [json |-> "object", id |-> id, run |-> run]

BrokenLine == [json |-> "broken", id |-> "", run |-> 0]

\* load_existing_samples: the ids of the lines that json.loads accepts.
load_existing_samples(samples_path) ==
    {samples_path[k].id : k \in {j \in 1..Len(samples_path) :
                                    samples_path[j].json = "object"}}

\* A filter that forgets resume.
RemainingAll(ps, existing_ids) == ps

\* remaining_prompts = [p for p in prompts if p["id"] not in existing_ids]
Remaining(ps, existing_ids) == SelectSeq(ps, LAMBDA id : id \notin existing_ids)

\* remaining_prompts[:num_samples] when num_samples is not None
Limited(ps, num_samples) ==
    IF num_samples.given
    THEN SubSeq(ps, 1, Min(num_samples.value, Len(ps)))
    ELSE ps

\* What generate_sample does: the sample, or None after an API error, after
\* a rate-limit error and its sleep of 60 seconds; or the call is
\* interrupted (KeyboardInterrupt is no Exception).  The second field is the
\* time the call takes.
SampleOutcomes ==
    {<<"sample", 1>>, <<"sample", 13>>, <<"api_error", 1>>,
     <<"rate_limited", 1 + RateLimitSleep>>, <<"interrupted", 1>>}

InitGenerate ==
    /\ prompts \in [path : {SubSeq(PromptIds, 1, n) : n \in 0..MaxPrompts},
                    num_samples : {NoLimit} \cup {Limit(n) : n \in 0..1},
                    resume : BOOLEAN]
    /\ output_file \in {<<>>, <<BrokenLine>>, <<SampleLine("p1", 0)>>}
    /\ remaining_prompts = <<>>
    /\ pbar = 0
    /\ run_stats = None
    /\ last_request_time = 0
    /\ clock = StartClock
    /\ requests = <<>>
    /\ pc = "generate"
    /\ calls = 1
    /\ earlier = <<>>
    /\ markers = <<>>
    /\ ScannerIdle
    /\ ExtractionIdle
    /\ CliIdle

\* generate_samples up to the loop: the prompts are loaded, those already
\* in the output file are dropped when resume is set, the rest is cut to
\* num_samples; with nothing left the call returns at once.
Select ==
    /\ pc = "generate"
    /\ LET existing_ids == IF prompts.resume
                           THEN load_existing_samples(output_file) ELSE {}
           rest == Limited(Remaining(prompts.path, existing_ids),
                           prompts.num_samples)
       IN /\ remaining_prompts' = rest
          /\ run_stats' = [generated |-> 0,
                           skipped |-> Cardinality(existing_ids),
                           failed |-> 0]
          /\ pc' = IF rest = <<>> THEN "generate_returned" ELSE "generate_loop"
    /\ last_request_time' = 0
    /\ pbar' = 0
    /\ UNCHANGED <<prompts, output_file, clock, requests, calls, earlier, markers>>
    /\ UNCHANGED <<scan_vars, extraction_vars, cli_vars>>

\* A request that leaves last_request_time alone.
RequestTimeKept(now) == last_request_time

\* last_request_time = time.time()
RequestTime(now) == now

\* A loop that never waits.
RateLimitedStartNoWait(now) == now

\* The rate limiting at the head of the loop: the time at which the request
\* starts.
RateLimitedStart(now) ==
    LET elapsed == now - last_request_time
    IN IF elapsed < MIN_DELAY_BETWEEN_REQUESTS
       THEN now + (MIN_DELAY_BETWEEN_REQUESTS - elapsed)
       ELSE now

\* The request of client.messages.create as the log keeps it.
Request(id, at) ==
    [id |-> id, at |-> at, run |-> calls,
     saved |-> id \in load_existing_samples(output_file)]

\* One turn of `for prompt_data in remaining_prompts' up to the retry: the
\* wait, the request, and on a sample save_sample and the counters.
Attempt ==
    /\ pc = "generate_loop"
    /\ pbar < Len(remaining_prompts)
    /\ LET id == remaining_prompts[pbar + 1]
           start == RateLimitedStart(clock)
       IN /\ last_request_time' = RequestTime(start)
          /\ requests' = Append(requests, Request(id, start))
          /\ \E o \in SampleOutcomes :
                CASE o[1] = "sample" ->
                        /\ output_file' = Append(output_file, SampleLine(id, calls))
                        /\ run_stats' = [run_stats EXCEPT !.generated = @ + 1]
                        /\ pbar' = pbar + 1
                        /\ clock' = start + o[2]
                        /\ pc' = "generate_loop"
                  [] o[1] = "interrupted" ->
                        /\ clock' = start + o[2]
                        /\ pc' = "generate_interrupted"
                        /\ UNCHANGED <<output_file, run_stats, pbar>>
                  [] OTHER ->
                        /\ run_stats' = [run_stats EXCEPT !.failed = @ + 1]
                        /\ clock' = start + o[2] + RetrySleep
                        /\ pc' = "generate_retry"
                        /\ UNCHANGED <<output_file, pbar>>
    /\ UNCHANGED <<prompts, remaining_prompts, calls, earlier, markers>>
    /\ UNCHANGED <<scan_vars, extraction_vars, cli_vars>>

\* A retry that comes back for the same prompt after a failure.
RetryAdvanceNever(n) == n

\* pbar.update(1) after the retry, whatever it gave.
RetryAdvance(n) == n + 1

\* The retry after time.sleep(2), and the end of the turn.
Retry ==
    /\ pc = "generate_retry"
    /\ LET id == remaining_prompts[pbar + 1]
       IN /\ requests' = Append(requests, Request(id, clock))
          /\ \E o \in SampleOutcomes :
                CASE o[1] = "sample" ->
                        /\ output_file' = Append(output_file, SampleLine(id, calls))
                        /\ run_stats' = [run_stats EXCEPT !.generated = @ + 1,
                                                          !.failed = @ - 1]
                        /\ pbar' = RetryAdvance(pbar)
                        /\ clock' = clock + o[2]
                        /\ pc' = "generate_loop"
                  [] o[1] = "interrupted" ->
                        /\ clock' = clock + o[2]
                        /\ pc' = "generate_interrupted"
                        /\ UNCHANGED <<output_file, run_stats, pbar>>
                  [] OTHER ->
                        /\ pbar' = RetryAdvance(pbar)
                        /\ clock' = clock + o[2]
                        /\ pc' = "generate_loop"
                        /\ UNCHANGED <<output_file, run_stats>>
    /\ UNCHANGED <<prompts, remaining_prompts, last_request_time, calls,
                   earlier, markers>>
    /\ UNCHANGED <<scan_vars, extraction_vars, cli_vars>>

\* return stats, after the last prompt.
ReturnStats ==
    /\ pc = "generate_loop"
    /\ pbar >= Len(remaining_prompts)
    /\ pc' = "generate_returned"
    /\ UNCHANGED <<prompts, output_file, remaining_prompts, pbar, run_stats,
                   last_request_time, clock, requests, calls, earlier, markers>>
    /\ UNCHANGED <<scan_vars, extraction_vars, cli_vars>>

\* The operator runs generate_samples again on the same prompts and the
\* same output file, after a return or an interruption.
\* `earlier' keeps the resume flags of the runs before; the locals of the
\* call that ended are gone, and the log of requests starts anew.
RunAgain ==
    /\ pc \in {"generate_returned", "generate_interrupted"}
    /\ calls < MaxRuns
    /\ calls' = calls + 1
    /\ \E resume \in BOOLEAN : prompts' = [prompts EXCEPT !.resume = resume]
    /\ earlier' = Append(earlier, prompts.resume)
    /\ clock' = StartClock
    /\ requests' = <<>>
    /\ pc' = "generate"
    /\ remaining_prompts' = <<>>
    /\ pbar' = 0
    /\ run_stats' = None
    /\ last_request_time' = 0
    /\ UNCHANGED <<output_file, markers>>
    /\ UNCHANGED <<scan_vars, extraction_vars, cli_vars>>

NextGenerate == Select \/ Attempt \/ Retry \/ ReturnStats \/ RunAgain

SpecGenerate == InitGenerate /\ [][NextGenerate]_vars

\* One call of generate_samples, under a scheduler that lets its single
\* thread go on: time.sleep and the API call return.
NextCall == Select \/ Attempt \/ Retry \/ ReturnStats

SpecGenerateLive == InitGenerate /\ [][NextCall]_vars /\ WF_vars(NextCall)

(***************************************************************************)
(* Properties of generate_samples                                          *)
(***************************************************************************)
\* The ids of a list of prompts.
Ids(ps) == {ps[k] : k \in 1..Len(ps)}

\* The requests of the running call for a prompt.
RequestsFor(id) == {k \in 1..Len(requests) : requests[k].id = id}

\* The lines the running call has appended for a prompt.
SavedFor(id) ==
    {k \in 1..Len(output_file) :
        /\ output_file[k].json = "object"
        /\ output_file[k].id = id
        /\ output_file[k].run = calls}

SavedByRun ==
    {k \in 1..Len(output_file) :
        output_file[k].json = "object" /\ output_file[k].run = calls}

GenerateEnded == pc \in {"generate_returned", "generate_interrupted"}

RetryBounded ==
    /\ pc # "generate" =>
          /\ \A id \in Ids(PromptIds) :
                /\ Cardinality(RequestsFor(id)) <= 2
                /\ Cardinality(SavedFor(id)) <= 1
                /\ RequestsFor(id) # {} =>
                      id \in Ids(remaining_prompts)
    /\ pc = "generate_returned" =>
          /\ run_stats.generated + run_stats.failed = Len(remaining_prompts)
          /\ run_stats.generated = Cardinality(SavedByRun)
          /\ run_stats.failed >= 0
          /\ pbar = Len(remaining_prompts)

\* C23: every selected prompt is sent to the API at most twice and gets at
\* most one sample saved; the call, once begun, always comes to its end
\* after the last selected prompt; and on return generated + failed is the
\* number of selected prompts, generated the number of samples appended,
\* failed not negative.
C23_BoundedRetry ==
    /\ []RetryBounded
    /\ (pc = "generate") ~> GenerateEnded

\* C23 witness: a call over two prompts has returned; the first prompt
\* failed and was saved by its retry, the second failed twice.
C23_Witness ==
    /\ pc = "generate_returned"
    /\ Len(remaining_prompts) = 2
    /\ Len(requests) = 4
    /\ run_stats.generated = 1
    /\ run_stats.failed = 1
    /\ Cardinality(SavedFor(remaining_prompts[1])) = 1

\* Every run so far, the running one included, had resume set.
AlwaysResumed == prompts.resume /\ \A k \in 1..Len(earlier) : earlier[k]

Resumed ==
    /\ prompts.resume => \A k \in 1..Len(requests) : ~requests[k].saved
    /\ AlwaysResumed =>
          \A id \in Ids(PromptIds) :
              Cardinality({k \in 1..Len(output_file) :
                              output_file[k].json = "object"
                              /\ output_file[k].id = id}) <= 1

\* The output file only grows at its end.
AppendOnly ==
    /\ Len(output_file') >= Len(output_file)
    /\ SubSeq(output_file', 1, Len(output_file)) = output_file

\* C24: with resume set no prompt whose id is in the output file is sent
\* again; over runs that all have resume set, interrupted or complete, the
\* output file holds at most one sample for a prompt id; and no line once
\* written is removed or rewritten.
C24_Resumable == []Resumed /\ [][AppendOnly]_vars

\* C24 witness: a second run with resume set, after a first one with resume
\* set that left a sample, has sent a request and saved a sample of its own.
C24_Witness ==
    /\ calls = 2
    /\ AlwaysResumed
    /\ \E k \in 1..Len(output_file) : output_file[k].run = 1
    /\ \E k \in 1..Len(output_file) : output_file[k].run = 2
    /\ Len(requests) >= 1

\* C25: any two consecutive API requests of a call of generate_samples, a
\* retry and the request after it included, start at least
\* MIN_DELAY_BETWEEN_REQUESTS apart.
C25_RequestsSpaced ==
    \A k \in 1..(Len(requests) - 1) :
        requests[k + 1].at - requests[k].at >= MIN_DELAY_BETWEEN_REQUESTS

\* A request that is the retry of the one before it.
IsRetry(k) == k > 1 /\ requests[k - 1].id = requests[k].id

\* The same for the pairs whose first request is no retry, which holds.
FirstAttemptsSpaced ==
    \A k \in 1..(Len(requests) - 1) :
        ~IsRetry(k) =>
            requests[k + 1].at - requests[k].at >= MIN_DELAY_BETWEEN_REQUESTS

(***************************************************************************)
(* The scan CLI: check_writing.py main, process_single_file and            *)
(* interactive_mode                                                        *)
(***************************************************************************)
DEFAULT_MIN_SCORE == 60
MaxFiles == 2

\* check_text as one call: the loop over the markers, the checks made once
\* per document, the None values dropped.
check_text(t, ms, verb, tech) ==
    LET RECURSIVE Scan(_, _)
        Scan(k, r) ==
            IF k > Len(ms) THEN r.findings
            ELSE Scan(k + 1, ScanMarker(r.findings, r.seen_patterns, t, ms[k],
                                        verb, tech))
        scanned == Scan(1, [findings |-> NewFindings(t),
                            seen_patterns |-> NewSeenPatterns(EmptyMap)])
    IN Clean(FormulaicCheck(
                 HedgingCheck(
                     ListCheck(ParagraphCheck(EmDashCheck(scanned, t), t, tech)),
                     t),
                 t))

\* str.lower() on the patterns of findings and of ignore_patterns.
LowerPattern(s) ==
    CASE s = "DELVE" -> "delve"
      [] s = "Comprehensive" -> "comprehensive"
      [] s = "Short paragraphs" -> "short paragraphs"
      [] s = "Hedging language overuse" -> "hedging language overuse"
      [] s = "Bullet point overuse" -> "bullet point overuse"
      [] s = "Formulaic sentence starters" -> "formulaic sentence starters"
      [] OTHER -> Lower(s)

\* A filter that keeps every finding.
IgnoredNever(pattern, ignore_patterns) == FALSE

\* f["pattern"].lower() in [p.lower() for p in ignore_patterns]
Ignored(pattern, ignore_patterns) ==
    \E k \in 1..Len(ignore_patterns) :
        LowerPattern(pattern) = LowerPattern(ignore_patterns[k])

\* process_single_file: the findings without the ignored patterns, the
\* counters recalculated; nothing is done for an empty ignore_patterns.
FilterIgnored(f, ignore_patterns) ==
    IF ignore_patterns = <<>> THEN f
    ELSE LET keep(x) == ~Ignored(x.pattern, ignore_patterns)
             high == SelectSeq(f.high, keep)
             medium == SelectSeq(f.medium, keep)
             low == SelectSeq(f.low, keep)
         IN [f EXCEPT !.high = high, !.medium = medium, !.low = low,
                      !.stats.high_severity = Len(high),
                      !.stats.medium_severity = Len(medium),
                      !.stats.patterns_found = Len(high) + Len(medium)]

\* The paths of the command line, and the suffix of each.
Paths == <<"b.md", "drafts/a.md", "c.pdf">>

Supported(path) == path # "c.pdf"

\* fnmatch.fnmatch(filepath, pattern) or fnmatch.fnmatch(basename, pattern)
Fnmatch(path, pattern) ==
    \/ pattern = "drafts/*" /\ path = "drafts/a.md"
    \/ pattern = "*.pdf" /\ path = "c.pdf"

should_exclude_file(filepath, exclude_patterns) ==
    \E k \in 1..Len(exclude_patterns) : Fnmatch(filepath, exclude_patterns[k])

\* A file of the disk: missing, or there with its text; a file that is
\* there may fail to be read (a directory, bytes that are no text).
NoText == [toks |-> <<>>, pad |-> 0]

Missing ==
    [exists |-> FALSE, readable |-> FALSE, text |-> NoText, markers |-> <<>>]

Unreadable ==
    [exists |-> TRUE, readable |-> FALSE, text |-> NoText, markers |-> <<>>]

File(t) == [exists |-> TRUE, readable |-> TRUE, text |-> t, markers |-> <<>>]

\* The marker file: JSON with the list "markers".
MarkerFile(ms) ==
    [exists |-> TRUE, readable |-> TRUE, text |-> NoText, markers |-> ms]

\* The markers of MARKERS_PATH.
CliMarkers ==
    <<[item |-> "comprehensive", type |-> "word", log_odds |-> 25],
      [item |-> "delve", type |-> "word", log_odds |-> 20],
      [item |-> "often", type |-> "word", log_odds |-> 14]>>

\* Documents: one without findings, one of a single flagged word, one with
\* a finding of each severity among 48 words.
CleanDoc == [toks |-> <<>>, pad |-> 45]

FlaggedDoc == [toks |-> <<"delve">>, pad |-> 0]

MixedDoc == [toks |-> <<"comprehensive", "delve", "often">>, pad |-> 45]

\* The results of process_single_file.
ErrorResult(filepath) ==
    [filename |-> filepath, kind |-> "error", score |-> 0, findings |-> None]

ExcludedResult(filepath) ==
    [filename |-> filepath, kind |-> "excluded", score |-> 0, findings |-> None]

ScoredResult(filepath, f, sc) ==
    [filename |-> filepath, kind |-> "scored", score |-> sc, findings |-> f]

\* A test of the exclusions that comes before the test of existence.
BeforeReadingExcludedFirst(filepath) ==
    IF should_exclude_file(filepath, config.exclude) THEN "excluded"
    ELSE IF ~disk[filepath].exists THEN "error"
    ELSE IF ~Supported(filepath) THEN "exit"
    ELSE IF ~disk[filepath].readable THEN "error"
    ELSE "read"

\* process_single_file up to read_file: the file is missing, excluded, of
\* a suffix read_file leaves the program for, unreadable, or read.
BeforeReading(filepath) ==
    IF ~disk[filepath].exists THEN "error"
    ELSE IF should_exclude_file(filepath, config.exclude) THEN "excluded"
    ELSE IF ~Supported(filepath) THEN "exit"
    ELSE IF ~disk[filepath].readable THEN "error"
    ELSE "read"

\* result.get("score", 100) < min_score
BelowMinScore(sc) == sc < config.min_score

\* main: what the loop does with a result, given what was printed and
\* read so far.
Collect(result, out) ==
    [results |-> Append(results, result),
     any_failed |->
         (\/ any_failed
          \/ result.kind = "error"
          \/ result.kind = "scored" /\ BelowMinScore(result.score)),
     output |-> [out EXCEPT
         !.stderr = IF result.kind = "error" THEN Append(@, "Error")
                    ELSE IF result.kind = "excluded" /\ args.verbose
                    THEN Append(@, "Excluded")
                    ELSE @]]

\* ALTERNATIVES.get(item.lower()), the first suggestion: "" when there is
\* none.
Alternative(pattern) ==
    IF LowerPattern(pattern) = "comprehensive" THEN "complete" ELSE ""

\* What the user may type at "Enter replacement text".
EditInputs == {"dig", "delve"}

\* interactive_mode: all_findings, the high findings before the medium
\* ones, each sorted by -ratio.  The markers of the model have one and the
\* same ratio, and a finding that is not a marker's has none (0): the sort
\* is stable and puts it last.
AllFindings(f) ==
    SelectSeq(f.high, FromMarker)
    \o SelectSeq(f.high, LAMBDA x : ~FromMarker(x))
    \o SelectSeq(f.medium, FromMarker)
    \o SelectSeq(f.medium, LAMBDA x : ~FromMarker(x))

\* The finding is one the loop asks about: not structural, and its pattern
\* still in the text.
Promptable(finding, t) ==
    /\ finding.type \notin {"structure", "hedging", "punctuation"}
    /\ WordMatches(t, finding.pattern) # {}

\* The position of the next finding asked about from k on, or past the end.
NextPrompt(all, k, t) ==
    LET S == {j \in k..Len(all) : Promptable(all[j], t)}
    IN IF S = {} THEN Len(all) + 1 ELSE CHOOSE j \in S : \A m \in S : j <= m

\* apply_replacement: the first match of the pattern replaced.
apply_replacement(t, pattern, replacement) ==
    LET M == WordMatches(t, pattern)
    IN IF M = {} THEN t
       ELSE LET i == CHOOSE j \in M : \A m \in M : j <= m
            IN [t EXCEPT !.toks[i] = replacement]

NoOutput == [stdout |-> <<>>, stderr |-> <<>>, reads |-> <<>>, writes |-> <<>>]

DiskNames == {Paths[k] : k \in 1..Len(Paths)} \cup {"MARKERS_PATH", "<stdin>"}

Disk(b, a, c, m) ==
    [n \in DiskNames |->
        CASE n = "b.md" -> b
          [] n = "drafts/a.md" -> a
          [] n = "c.pdf" -> c
          [] n = "MARKERS_PATH" -> m
          [] OTHER -> File(MixedDoc)]

\* The sequences of distinct paths of the command line.
FileLists(n) ==
    {fs \in SeqsUpTo({Paths[k] : k \in 1..Len(Paths)}, n) :
        \A i, j \in 1..Len(fs) : i # j => fs[i] # fs[j]}

DefaultConfig ==
    [min_score |-> DEFAULT_MIN_SCORE, exclude |-> <<>>, ignore_patterns |-> <<>>,
     technical |-> TRUE]

\* Runs with and without the marker file, in every mode.
MarkerInputs ==
    {[args |-> [interactive |-> i, stdin |-> sd, format |-> fm,
                verbose |-> FALSE, files |-> fs],
      config |-> DefaultConfig,
      disk |-> Disk(File(MixedDoc), File(FlaggedDoc), Missing, m)] :
        i \in BOOLEAN, sd \in BOOLEAN, fm \in {"text", "json"},
        fs \in {<<>>, <<"b.md">>, <<"b.md", "drafts/a.md">>},
        m \in {Missing, MarkerFile(CliMarkers)}}

\* File mode on files that are missing, unreadable, excluded, of an
\* unsupported suffix, above and below min_score.
FileInputs ==
    {[args |-> [interactive |-> FALSE, stdin |-> FALSE, format |-> "text",
                verbose |-> TRUE, files |-> fs],
      config |-> [DefaultConfig EXCEPT !.min_score = ms, !.exclude = ex],
      disk |-> Disk(b, a, c, MarkerFile(CliMarkers))] :
        fs \in FileLists(MaxFiles) \ {<<>>},
        ms \in {DEFAULT_MIN_SCORE, DEFAULT_MIN_SCORE + 10},
        ex \in {<<>>, <<"drafts/*">>, <<"*.pdf">>},
        b \in {Missing, File(CleanDoc), File(MixedDoc)},
        a \in {Missing, Unreadable, File(CleanDoc), File(FlaggedDoc)},
        c \in {Missing, Unreadable}}

\* One file and a list of patterns to ignore.
IgnoreInputs ==
    {[args |-> [interactive |-> FALSE, stdin |-> FALSE, format |-> "text",
                verbose |-> vb, files |-> <<"b.md">>],
      config |-> [DefaultConfig EXCEPT !.ignore_patterns = ig, !.technical = tc],
      disk |-> Disk(File(b), Missing, Missing, MarkerFile(CliMarkers))] :
        vb \in BOOLEAN, tc \in BOOLEAN,
        ig \in {<<>>, <<"DELVE">>, <<"short paragraphs">>,
                <<"Comprehensive", "often">>},
        b \in {MixedDoc, FlaggedDoc}}

\* Interactive runs.
InteractiveInputs ==
    {[args |-> [interactive |-> TRUE, stdin |-> FALSE, format |-> "text",
                verbose |-> FALSE, files |-> fs],
      config |-> [DefaultConfig EXCEPT !.min_score = ms],
      disk |-> Disk(File(MixedDoc), File(FlaggedDoc), Missing, MarkerFile(CliMarkers))] :
        fs \in {<<"b.md">>, <<"drafts/a.md">>, <<"b.md", "drafts/a.md">>},
        ms \in {DEFAULT_MIN_SCORE, DEFAULT_MIN_SCORE + 10}}

CliInputs == MarkerInputs \cup FileInputs \cup IgnoreInputs \cup InteractiveInputs

InitCli ==
    /\ \E in \in CliInputs :
          /\ args = in.args
          /\ config = in.config
          /\ disk = in.disk
    /\ results = <<>>
    /\ any_failed = FALSE
    /\ exit_code = None
    /\ output = NoOutput
    /\ session = None
    /\ markers = <<>>
    /\ pc = "main"
    /\ calls = 1
    /\ earlier = None
    /\ ScannerIdle
    /\ ExtractionIdle
    /\ GenerateIdle

\* sys.exit(status), after a line on stderr.
Exit(status, line) ==
    /\ exit_code' = status
    /\ pc' = "exited"
    /\ output' = [output EXCEPT !.stderr = Append(@, line)]

\* main: --interactive does not go with --stdin, and ignores --format.
Validate ==
    /\ pc = "main"
    /\ IF args.interactive /\ args.stdin
       THEN Exit(1, "Error: --interactive requires file input")
       ELSE /\ pc' = "load_markers"
            /\ output' = IF args.interactive /\ args.format # "text"
                         THEN [output EXCEPT !.stderr = Append(@, "Warning")]
                         ELSE output
            /\ UNCHANGED exit_code
    /\ UNCHANGED <<args, config, disk, results, any_failed, session, markers,
                   calls, earlier>>
    /\ UNCHANGED <<scan_vars, extraction_vars, generate_vars>>

\* A load_markers that goes on without the file, with no markers.
MarkersAbsentNever(file) == FALSE

\* if not MARKERS_PATH.exists()
MarkersAbsent(file) == ~file.exists

\* data = load_markers(); markers = data.get("markers", [])
LoadMarkers ==
    /\ pc = "load_markers"
    /\ IF MarkersAbsent(disk["MARKERS_PATH"])
       THEN Exit(1, "Error: Markers file not found") /\ UNCHANGED markers
       ELSE /\ markers' = IF disk["MARKERS_PATH"].exists
                          THEN disk["MARKERS_PATH"].markers ELSE <<>>
            /\ pc' = IF args.stdin THEN "stdin" ELSE "files"
            /\ UNCHANGED <<exit_code, output>>
    /\ UNCHANGED <<args, config, disk, results, any_failed, session, calls,
                   earlier>>
    /\ UNCHANGED <<scan_vars, extraction_vars, generate_vars>>

\* main on --stdin: the text is read, scanned, scored and reported.
Stdin ==
    /\ pc = "stdin"
    /\ LET t == disk["<stdin>"].text
           f == check_text(t, markers, args.verbose, config.technical)
       IN /\ output' = [output EXCEPT !.reads = Append(@, "<stdin>"),
                                      !.stdout = Append(@, "report")]
          /\ exit_code' = IF calculate_score(f) >= config.min_score THEN 0 ELSE 1
    /\ pc' = "exited"
    /\ UNCHANGED <<args, config, disk, results, any_failed, session, markers,
                   calls, earlier>>
    /\ UNCHANGED <<scan_vars, extraction_vars, generate_vars>>

\* main without files: parser.print_help(), sys.exit(1).
PrintHelp ==
    /\ pc = "files"
    /\ args.files = <<>>
    /\ exit_code' = 1
    /\ pc' = "exited"
    /\ output' = [output EXCEPT !.stdout = Append(@, "help")]
    /\ UNCHANGED <<args, config, disk, results, any_failed, session, markers,
                   calls, earlier>>
    /\ UNCHANGED <<scan_vars, extraction_vars, generate_vars>>

\* The end of process_single_file after interactive_mode returned the text
\* t and the number of changes, and main's bookkeeping of the result.  The
\* write is logged with `confirmed': whether the save prompt was answered
\* with y.
Leave(filepath, t, changes, confirmed, f, sc) ==
    LET written == changes > 0
        g == IF written
             THEN check_text(t, markers, args.verbose, config.technical) ELSE f
        result == ScoredResult(filepath, g,
                               IF written THEN calculate_score(g) ELSE sc)
        out == IF written
               THEN [output EXCEPT !.writes =
                        Append(@, [filename |-> filepath, changes |-> changes,
                                   confirmed |-> confirmed])]
               ELSE output
        c == Collect(result, out)
    IN /\ disk' = IF written THEN [disk EXCEPT ![filepath] = File(t)] ELSE disk
       /\ results' = c.results
       /\ any_failed' = c.any_failed
       /\ output' = c.output
       /\ session' = None
       /\ pc' = "files"

\* interactive_mode after the loop: with changes the save prompt comes,
\* without them the text is returned as it was.
Summary(ses) ==
    IF ses.changes_made > 0
    THEN /\ session' = ses
         /\ pc' = "save"
         /\ UNCHANGED <<disk, results, any_failed, output>>
    ELSE Leave(ses.filepath, ses.text, 0, FALSE, ses.findings, ses.score)

\* interactive_mode: on to the next finding asked about, or to the summary.
Advance(ses, k) ==
    LET j == NextPrompt(ses.all_findings, k, ses.modified_text)
    IN IF j <= Len(ses.all_findings)
       THEN /\ session' = [ses EXCEPT !.position = j]
            /\ pc' = "prompt"
            /\ UNCHANGED <<disk, results, any_failed, output>>
       ELSE Summary(ses)

\* One turn of `for filepath in args.files': process_single_file, up to the
\* first prompt in interactive mode, and main's bookkeeping.
ProcessFile ==
    /\ pc = "files"
    /\ Len(results) < Len(args.files)
    /\ LET filepath == args.files[Len(results) + 1]
           before == BeforeReading(filepath)
       IN CASE before = "exit" ->
                  /\ Exit(1, "Error: Unsupported file type")
                  /\ UNCHANGED <<disk, results, any_failed, session>>
            [] before \in {"error", "excluded"} ->
                  LET c == Collect(IF before = "error"
                                   THEN ErrorResult(filepath)
                                   ELSE ExcludedResult(filepath), output)
                  IN /\ results' = c.results
                     /\ any_failed' = c.any_failed
                     /\ output' = c.output
                     /\ UNCHANGED <<disk, session, pc, exit_code>>
            [] OTHER ->
                  LET t == disk[filepath].text
                      f == FilterIgnored(
                               check_text(t, markers, args.verbose,
                                          config.technical),
                               config.ignore_patterns)
                      sc == calculate_score(f)
                      out == [output EXCEPT !.reads = Append(@, filepath)]
                  IN IF args.interactive
                     THEN /\ UNCHANGED exit_code
                          /\ LET ses == [filepath |-> filepath, text |-> t,
                                         findings |-> f, score |-> sc,
                                         modified_text |-> t,
                                         changes_made |-> 0,
                                         all_findings |-> AllFindings(f),
                                         position |-> 1]
                                 j == NextPrompt(ses.all_findings, 1, t)
                                 c == Collect(ScoredResult(filepath, f, sc), out)
                             IN IF j <= Len(ses.all_findings)
                                THEN /\ session' = [ses EXCEPT !.position = j]
                                     /\ pc' = "prompt"
                                     /\ output' = out
                                     /\ UNCHANGED <<disk, results, any_failed>>
                                ELSE /\ results' = c.results
                                     /\ any_failed' = c.any_failed
                                     /\ output' = c.output
                                     /\ UNCHANGED <<disk, session, pc>>
                     ELSE LET c == Collect(ScoredResult(filepath, f, sc), out)
                          IN /\ results' = c.results
                             /\ any_failed' = c.any_failed
                             /\ output' = c.output
                             /\ UNCHANGED <<disk, session, pc, exit_code>>
    /\ UNCHANGED <<args, config, markers, calls, earlier>>
    /\ UNCHANGED <<scan_vars, extraction_vars, generate_vars>>

\* A quit that drops the replacements made so far.
QuitKeepsNothing(ses) == [ses EXCEPT !.modified_text = ses.text, !.changes_made = 0]

\* choice == "q": return modified_text, changes_made when changes_made > 0,
\* else text, 0.
QuitKeeps(ses) == ses

\* interactive_mode: the answer to "[a]ccept / [s]kip / [e]dit / [q]uit".
\* An answer that is none of these, an accept without a suggestion and a
\* cancelled edit ask again.
Choose ==
    /\ pc = "prompt"
    /\ LET finding == session.all_findings[session.position]
           replaced(r) ==
               LET t == apply_replacement(session.modified_text,
                                          finding.pattern, r)
               IN [session EXCEPT
                      !.modified_text = t,
                      !.changes_made =
                          IF t # session.modified_text THEN @ + 1 ELSE @]
       IN \E choice \in {"a", "s", "e", "q", "other"} :
             CASE choice = "q" ->
                    LET ses == QuitKeeps(session)
                    IN Leave(ses.filepath, ses.modified_text, ses.changes_made,
                             FALSE, ses.findings, ses.score)
               [] choice = "s" -> Advance(session, session.position + 1)
               [] choice = "a" /\ Alternative(finding.pattern) # "" ->
                    Advance(replaced(Alternative(finding.pattern)),
                            session.position + 1)
               [] choice = "e" ->
                    \E r \in EditInputs :
                        Advance(replaced(r), session.position + 1)
               [] OTHER ->
                    UNCHANGED <<disk, results, any_failed, output, session, pc>>
    /\ UNCHANGED <<args, config, markers, exit_code, calls, earlier>>
    /\ UNCHANGED <<scan_vars, extraction_vars, generate_vars>>

\* interactive_mode: the answer to "Save changes to ...? [y/n]".
Save ==
    /\ pc = "save"
    /\ \E save \in {"y", "n", "other"} :
          CASE save = "y" ->
                 Leave(session.filepath, session.modified_text,
                       session.changes_made, TRUE, session.findings,
                       session.score)
            [] save = "n" ->
                 Leave(session.filepath, session.text, 0, FALSE,
                       session.findings, session.score)
            [] OTHER ->
                 UNCHANGED <<disk, results, any_failed, output, session, pc>>
    /\ UNCHANGED <<args, config, markers, exit_code, calls, earlier>>
    /\ UNCHANGED <<scan_vars, extraction_vars, generate_vars>>

\* main after the loop: the reports of the valid results, and the status.
Report ==
    /\ pc = "files"
    /\ args.files # <<>>
    /\ Len(results) = Len(args.files)
    /\ LET valid_results == SelectSeq(results, LAMBDA r : r.kind = "scored")
       IN IF valid_results = <<>>
          THEN Exit(1, "No valid files to check.")
          ELSE /\ exit_code' = IF any_failed THEN 1 ELSE 0
               /\ pc' = "exited"
               /\ output' =
                     IF args.interactive THEN output
                     ELSE IF args.format = "json" /\ Len(valid_results) > 1
                     THEN [output EXCEPT !.stdout = Append(@, "batch")]
                     ELSE IF args.format = "text" /\ Len(valid_results) > 1
                     THEN [output EXCEPT !.stdout =
                              @ \o [k \in 1..Len(valid_results) |-> "report"]
                                \o <<"summary">>]
                     ELSE [output EXCEPT !.stdout =
                              @ \o [k \in 1..Len(valid_results) |-> "report"]]
    /\ UNCHANGED <<args, config, disk, results, any_failed, session, markers,
                   calls, earlier>>
    /\ UNCHANGED <<scan_vars, extraction_vars, generate_vars>>

NextCli ==
    \/ Validate \/ LoadMarkers \/ Stdin \/ PrintHelp \/ ProcessFile
    \/ Choose \/ Save \/ Report

SpecCli == InitCli /\ [][NextCli]_vars

(***************************************************************************)
(* Properties of the scan CLI (checked under SpecCli)                      *)
(***************************************************************************)
Printed(stream, line) == \E k \in 1..Len(stream) : stream[k] = line

ResultFindings(r) == r.findings.high \o r.findings.medium \o r.findings.low

\* C22: after process_single_file with a non-empty ignore_patterns and
\* interactive off, no finding of the returned high, medium and low lists
\* has a pattern equal, letter case aside, to an ignored pattern;
\* high_severity and medium_severity are the lengths of the filtered high
\* and medium lists; and the score is the one of those counts.
C22_IgnoredPatternsFiltered ==
    (config # None /\ config.ignore_patterns # <<>> /\ ~args.interactive) =>
        \A k \in 1..Len(results) :
            results[k].kind = "scored" =>
                LET r == results[k]
                    f == r.findings
                IN /\ \A n \in 1..Len(ResultFindings(r)) :
                         \A m \in 1..Len(config.ignore_patterns) :
                             LowerPattern(ResultFindings(r)[n].pattern)
                                 # LowerPattern(config.ignore_patterns[m])
                   /\ f.stats.high_severity = Len(f.high)
                   /\ f.stats.medium_severity = Len(f.medium)
                   /\ r.score =
                         calculate_score(
                             [f EXCEPT !.stats.high_severity = Len(f.high),
                                       !.stats.medium_severity = Len(f.medium)])

\* C22 witness: a file was processed whose scan found ignored patterns in
\* the high and the low list, and its score is above the score of the
\* unfiltered findings.
C22_Witness ==
    /\ config # None
    /\ Len(config.ignore_patterns) = 2
    /\ args.verbose
    /\ Len(results) = 1
    /\ results[1].kind = "scored"
    /\ LET t == disk[results[1].filename].text
           f == check_text(t, markers, args.verbose, config.technical)
       IN /\ Len(f.high) > Len(results[1].findings.high)
          /\ Len(f.low) > Len(results[1].findings.low)
          /\ calculate_score(f) < results[1].score

\* A file of the command line was read without error and scored at least
\* min_score.
ReadAndPassed(k) ==
    /\ k <= Len(results)
    /\ results[k].kind = "scored"
    /\ results[k].score >= config.min_score

FileChecked == \E k \in 1..Len(results) : results[k].kind = "scored"

\* C26: in file mode the scan CLI exits with status 0 if and only if at
\* least one file was checked and every given file that is not excluded by
\* config was read without error and scored at least min_score; excluded
\* files never cause a failure.
C26_ExitStatus ==
    (pc = "exited" /\ ~args.stdin) =>
        /\ exit_code \in {0, 1}
        /\ exit_code = 0 <=>
              /\ FileChecked
              /\ \A k \in 1..Len(args.files) :
                    ~should_exclude_file(args.files[k], config.exclude) =>
                        ReadAndPassed(k)

\* C26 as amended: in file mode the scan CLI exits with status 0 if and
\* only if at least one file was checked, every given file exists, and
\* every given file that is not excluded by config was read without error
\* and scored at least min_score; a missing file makes the status 1 even
\* when it matches an exclude pattern, and excluded files that exist never
\* cause a failure.
C26_ExitStatusOfExistingFiles ==
    (pc = "exited" /\ ~args.stdin) =>
        /\ exit_code \in {0, 1}
        /\ exit_code = 0 <=>
              /\ FileChecked
              /\ \A k \in 1..Len(args.files) :
                    /\ disk[args.files[k]].exists
                    /\ ~should_exclude_file(args.files[k], config.exclude) =>
                          ReadAndPassed(k)

\* C26 witness: a run on two files has exited with status 0; one file is
\* excluded and would have failed, the other was checked and passed.
C26_Witness ==
    /\ pc = "exited"
    /\ exit_code = 0
    /\ Len(args.files) = 2
    /\ Len(results) = 2
    /\ \E k \in 1..2 :
          /\ results[k].kind = "excluded"
          /\ disk[args.files[k]].text = FlaggedDoc
    /\ \E k \in 1..2 : ReadAndPassed(k)

\* C30: in interactive mode the scanned file is overwritten only after the
\* user answered y to the save prompt, whatever was accepted, skipped,
\* edited or quit, and never when no replacement changed the text.
C30_WrittenOnlyOnSave ==
    (output # None) =>
        \A k \in 1..Len(output.writes) :
            /\ output.writes[k].confirmed
            /\ output.writes[k].changes > 0

\* The part of it about the changes, which holds: no file is written
\* without a replacement that changed the text.
WritesFollowChanges ==
    (output # None) =>
        \A k \in 1..Len(output.writes) : output.writes[k].changes > 0

=============================================================================
